---- MODULE Spec2Model ----
(***************************************************************************)
(* The tutorial runner of miden-tutorials: the bash script that parses the *)
(* command line, resolves the web and rust selections, runs the playwright *)
(* tests once, cleans the rust build, prepares the runs directory and runs *)
(* every selected rust tutorial with retries.                              *)
(*                                                                         *)
(* A command-line argument is a record [flag, val].  flag is the literal   *)
(* text of a recognised flag ("--web", "--web=", ...), "--other" for any   *)
(* other argument that starts with "--", and "word" for an argument that   *)
(* does not start with "--".  val is the text after "=" (or the whole word)*)
(* as a sequence of characters in which a tutorial name counts as one      *)
(* character and "," is the separator.                                     *)
(***************************************************************************)
EXTENDS Integers, Sequences, FiniteSets, TLC

(* ------------------------------ bounds -------------------------------- *)
MaxArgs == 2
MaxValueLen == 1
MaxFailures == 3
MaxRunSeconds == 1
MinRetries == 1
MaxRetries == 2
MaxSelValueLen == 3
MaxClicks == 3
MaxPageErrors == 2
MaxSelection == 3

(* ----------------------------- catalogs ------------------------------- *)
WEB_EXAMPLES ==
  << "createMintConsume", "multiSendWithDelegatedProver",
     "incrementCounterContract", "unauthenticatedNoteTransfer",
     "foreignProcedureInvocation" >>

WEB_SKIPPED == << "incrementCounterContract", "foreignProcedureInvocation" >>

RUST_EXAMPLES ==
  << "counter_contract_deploy", "counter_contract_fpi",
     "counter_contract_increment", "create_mint_consume_send",
     "delegated_prover", "hash_preimage_note", "mapping_example",
     "network_notes_counter_contract", "note_creation_in_masm",
     "oracle_data_query", "unauthenticated_note_transfer" >>

RUST_SKIPPED ==
  << "counter_contract_fpi", "counter_contract_increment", "oracle_data_query" >>

DefaultRetries == 3
SleepSeconds == 10

(* ------------------------- the inputs drawn --------------------------- *)
Comma == ","
NameAtoms == { "incrementCounterContract", "counter_contract_deploy",
               "counter_contract_fpi" }
Chars == NameAtoms \cup {Comma}

\* The texts of at most MaxValueLen characters; two names never touch (that
\* would be one longer name).
ValueStrings ==
  { v \in UNION { [1..n -> Chars] : n \in 0..MaxValueLen } :
      \A i \in 1..(Len(v) - 1) : v[i] = Comma \/ v[i + 1] = Comma }

BareFlags == { "--web", "--rust", "--list", "--help", "-h", "--other" }
ValueFlags == { "--web=", "--rust=", "word" }

Arguments ==
  { [flag |-> f, val |-> << >>] : f \in BareFlags }
    \cup { [flag |-> f, val |-> v] : f \in ValueFlags, v \in ValueStrings }

ArgLists == UNION { [1..n -> Arguments] : n \in 0..MaxArgs }

\* Longer values, with several names in one argument, for the selection.
SelValueStrings ==
  { v \in UNION { [1..n -> Chars] : n \in 0..MaxSelValueLen } :
      \A i \in 1..(Len(v) - 1) : v[i] = Comma \/ v[i + 1] = Comma }

SelArguments ==
  { [flag |-> f, val |-> << >>] : f \in BareFlags }
    \cup { [flag |-> f, val |-> v] : f \in ValueFlags, v \in SelValueStrings }

SelArgLists == UNION { [1..n -> SelArguments] : n \in 0..MaxArgs }

\* TUTORIAL_RETRIES in the environment: unset, or set to an integer.
RetryEnv ==
  { [set |-> FALSE, val |-> 0] }
    \cup { [set |-> TRUE, val |-> n] : n \in (0 - MinRetries)..MaxRetries }

VARIABLES
  argv,          \* the argument list of the invocation (never changes)
  args,          \* "$@": the positional parameters still to be parsed
  pc,            \* the place in the script
  run_web, run_rust, saw_selector,
  web_names, rust_names, failures,
  web_pattern,   \* the --grep pattern: names with "|" between them
  rust_retries, idx, attempt,
  runs_dir,      \* $RUNS_DIR on disk: "absent", "dir" or "file"
  masm,          \* $RUNS_DIR/masm: "absent", "symlink", "dangling", "other"
  run_dirs,      \* the attempt directories on disk
  target,        \* cargo's build outputs: "stale", "clean" or "built"
  now, pid,      \* the wall clock in seconds, and $$
  run_seconds,   \* how long a rust tutorial of this invocation runs
  TUTORIAL_RETRIES, \* the environment variable: [set, val]
  events,        \* the external commands started and the sleeps, in order
  notices,       \* names for which the "skipped by default" note was printed
  summary,       \* the tags printed under "Failures:"
  err,           \* the error that ended the script, "none" if none
  exit_code,     \* -1 while running, then the exit status
  window_defined, \* the web page: typeof window !== "undefined"
  tutorialStatus, \* window.__tutorialStatus: name -> [state, error]
  isRunning,     \* the running flag of each button
  inFlight,      \* the pending calls of each tutorial action
  settled,       \* how the last call of each action ended
  console,       \* the numbers of console.warn and console.error calls
  clicks,        \* the button clicks so far
  catalogs,      \* the four catalog arrays of the script
  page_errors,   \* the uncaught errors of the page ("pageerror" events)
  test,          \* the playwright test: [name, verdict, why]
  tests_run,     \* the titles of the tests playwright's --grep selected
  fn,            \* the tutorial function of lib/ that is running
  store,         \* the counter contract is in the WebClient's local store
  counterContractAccount, \* the variable: "unset", "undefined" or "account"
  thrown,        \* the error the function rejected with, "" if none
  calls,         \* the client calls that concern the counter contract
  step,          \* how many of the steps after the lookup block are done
  balance,       \* the MID in the vault of Alice and of each wallet
  notes,         \* the notes created so far: [id, sender, target, amount, state]
  noteList,      \* the notes getConsumableNotes returned for Alice
  loop_i,        \* i of the transfer loop
  tx             \* the stage of the transaction in progress

vars == << argv, args, pc, run_web, run_rust, saw_selector, web_names,
           rust_names, failures, web_pattern, rust_retries, idx, attempt,
           runs_dir, masm, run_dirs, target, now, pid, run_seconds,
           TUTORIAL_RETRIES, events, notices, summary, err, exit_code,
           window_defined, tutorialStatus, isRunning, inFlight, settled,
           console, clicks, catalogs, page_errors, test, tests_run, fn,
           store, counterContractAccount, thrown, calls, step, balance,
           notes, noteList, loop_i, tx >>

(* ----------------------------- helpers -------------------------------- *)
\* contains(): linear search of the needle among the items.
RECURSIVE contains(_, _)
contains(needle, items) ==
  IF items = << >> THEN FALSE
  ELSE IF Head(items) = needle THEN TRUE
  ELSE contains(needle, Tail(items))

\* IFS=',' read -r -a parts: the fields between the separators ...
RECURSIVE read_fields(_, _)
read_fields(s, cur) ==
  IF s = << >> THEN << cur >>
  ELSE IF Head(s) = Comma THEN << cur >> \o read_fields(Tail(s), "")
  ELSE read_fields(Tail(s), Head(s))

\* ... where read drops one empty field at the end of the line.
read_parts(value) ==
  LET f == read_fields(value, "")
  IN  IF f[Len(f)] = "" THEN SubSeq(f, 1, Len(f) - 1) ELSE f

\* (mutant) the empty parts are appended too
add_names_keepEmpty(names, value) == names \o read_parts(value)

\* add_web_names / add_rust_names share their body: append the non-empty parts.
add_names(names, value) ==
  names \o SelectSeq(read_parts(value), LAMBDA part : part # "")

add_web_names(names, value) == add_names(names, value)
add_rust_names(names, value) == add_names(names, value)

\* The text of an argument used as a value ("$2" after a bare --web / --rust).
ArgText(a) == IF a.flag = "word" THEN a.val ELSE << a.flag >>

\* "$2" != --*
StartsWithDashes(a) == a.flag \notin { "word", "-h" }

\* (mutant) the skipped names are not left out
default_names_all(examples, skipped) == examples

\* The catalog without the names skipped by default, in catalog order.
default_names(examples, skipped) ==
  SelectSeq(examples, LAMBDA name : ~contains(name, skipped))

\* The first position of names that is not in examples, 0 if there is none.
RECURSIVE first_unknown(_, _, _)
first_unknown(names, examples, i) ==
  IF i > Len(names) THEN 0
  ELSE IF ~contains(names[i], examples) THEN i
  ELSE first_unknown(names, examples, i + 1)

\* (mutant) a note for every name checked, skipped by default or not
skip_notes_all(names, skipped, stop) == SubSeq(names, 1, stop - 1)

\* The notes printed by a validation loop that stops before position stop.
skip_notes(names, skipped, stop) ==
  SelectSeq(SubSeq(names, 1, stop - 1), LAMBDA name : contains(name, skipped))

\* (mutant) the names are joined with "," whatever the separator
RECURSIVE join_comma(_, _)
join_comma(names, sep) ==
  IF names = << >> THEN << >>
  ELSE IF Len(names) = 1 THEN << names[1] >>
  ELSE << names[1], "," >> \o join_comma(Tail(names), sep)

\* "${names[*]}" under IFS=sep: the names with sep between them.
RECURSIVE join(_, _)
join(names, sep) ==
  IF names = << >> THEN << >>
  ELSE IF Len(names) = 1 THEN << names[1] >>
  ELSE << names[1], sep >> \o join(Tail(names), sep)

\* The tests of the playwright file, in the order of their registration:
\* one test per entry of tutorials, its title the entry's name.
tutorials ==
  << "createMintConsume", "multiSendWithDelegatedProver",
     "incrementCounterContract", "unauthenticatedNoteTransfer",
     "foreignProcedureInvocation" >>

\* The characters of a web tutorial name.
letters(name) ==
  CASE name = "createMintConsume" ->
         << "c", "r", "e", "a", "t", "e", "M", "i", "n", "t", "C",
         "o", "n", "s", "u", "m", "e" >>
    [] name = "multiSendWithDelegatedProver" ->
         << "m", "u", "l", "t", "i", "S", "e", "n", "d", "W", "i",
         "t", "h", "D", "e", "l", "e", "g", "a", "t", "e", "d",
         "P", "r", "o", "v", "e", "r" >>
    [] name = "incrementCounterContract" ->
         << "i", "n", "c", "r", "e", "m", "e", "n", "t", "C", "o",
         "u", "n", "t", "e", "r", "C", "o", "n", "t", "r", "a",
         "c", "t" >>
    [] name = "unauthenticatedNoteTransfer" ->
         << "u", "n", "a", "u", "t", "h", "e", "n", "t", "i", "c",
         "a", "t", "e", "d", "N", "o", "t", "e", "T", "r", "a",
         "n", "s", "f", "e", "r" >>
    [] name = "foreignProcedureInvocation" ->
         << "f", "o", "r", "e", "i", "g", "n", "P", "r", "o", "c",
         "e", "d", "u", "r", "e", "I", "n", "v", "o", "c", "a",
         "t", "i", "o", "n" >>
    [] OTHER -> << name >>

\* The alternatives of a --grep pattern: the pieces between the "|".
RECURSIVE split_alternation(_, _)
split_alternation(pattern, cur) ==
  IF pattern = << >> THEN << cur >>
  ELSE IF Head(pattern) = "|"
       THEN << cur >> \o split_alternation(Tail(pattern), << >>)
  ELSE split_alternation(Tail(pattern), cur \o letters(Head(pattern)))

\* A regular expression without anchors matches anywhere in the text.
is_substring(piece, text) ==
  \E k \in 0..(Len(text) - Len(piece)) :
    SubSeq(text, k + 1, k + Len(piece)) = piece

\* --grep: the pattern matches the title of the test.
grep_matches(pattern, title) ==
  LET alts == split_alternation(pattern, << >>)
  IN  \E a \in DOMAIN alts : is_substring(alts[a], letters(title))

\* The tests playwright runs for a pattern.
grep_tests(pattern) ==
  { tutorials[t] : t \in { u \in DOMAIN tutorials :
                             grep_matches(pattern, tutorials[u]) } }

\* (mutant) the last attempt is one too late: -gt for -ge
attempt_outcome_gt(st, n, retries) ==
  IF st = 0 THEN "break"
  ELSE IF n > retries THEN "record"
  ELSE "retry"

\* (mutant) a success does not end the retries before the budget is used
attempt_outcome_nobreak(st, n, retries) ==
  IF n >= retries THEN (IF st = 0 THEN "break" ELSE "record")
  ELSE "retry"

\* (mutant) the last attempt is recognised with -eq for -ge
attempt_outcome_eq(st, n, retries) ==
  IF st = 0 THEN "break"
  ELSE IF n = retries THEN "record"
  ELSE "retry"

\* if status -eq 0: break; elif attempt -ge rust_retries: record and break;
\* else sleep and retry.
attempt_outcome(st, n, retries) ==
  IF st = 0 THEN "break"
  ELSE IF n >= retries THEN "record"
  ELSE "retry"

\* One external command started by the script (or one sleep): ev is "web",
\* "clean", "run" or "sleep"; a run names the entry of rust_names it serves,
\* its attempt, its run directory and the exit status of the tutorial.
Event(kind, entry, n, dir, st) ==
  [ev |-> kind, entry |-> entry, attempt |-> n, dir |-> dir, status |-> st]

\* run_dir: "$RUNS_DIR/${name}-$(date)-$$-attempt${attempt}"
run_dir(name, stamp, p, n) ==
  [name |-> name, stamp |-> stamp, pid |-> p, attempt |-> n]

EventsOf(kind) == { i \in DOMAIN events : events[i].ev = kind }

\* The rust tutorials that have exited non-zero so far.
NativeFailures == Cardinality({ i \in EventsOf("run") : events[i].status # 0 })

(* ---------------------------- the web page ---------------------------- *)
\* The tutorials of the page, one button each.
TutorialNames ==
  { "createMintConsume", "multiSendWithDelegatedProver",
    "incrementCounterContract", "unauthenticatedNoteTransfer",
    "foreignProcedureInvocation" }

NoStatus == [state |-> "none", error |-> ""]

\* The arrays as the script assigns them before anything else.
Catalogs ==
  [WEB_EXAMPLES |-> WEB_EXAMPLES, WEB_SKIPPED |-> WEB_SKIPPED,
   RUST_EXAMPLES |-> RUST_EXAMPLES, RUST_SKIPPED |-> RUST_SKIPPED]

\* No playwright test is looking at the page.
NoTest == [name |-> "", verdict |-> "off", why |-> ""]

\* The page before any click.
PageIdle ==
  /\ tutorialStatus = [n \in TutorialNames |-> NoStatus]
  /\ isRunning = [n \in TutorialNames |-> FALSE]
  /\ inFlight = [n \in TutorialNames |-> 0]
  /\ settled = [n \in TutorialNames |-> "none"]
  /\ console = [warn |-> 0, error |-> 0]
  /\ clicks = 0

\* The accounts unauthenticatedNoteTransfer creates: Alice, five wallets and
\* the faucet.
NumWallets == 5
alice == "alice"
wallet(k) ==
  << "wallet 1", "wallet 2", "wallet 3", "wallet 4", "wallet 5" >>[k]
wallets == [k \in 1..NumWallets |-> wallet(k)]
Holders == { alice } \cup { wallets[k] : k \in DOMAIN wallets }
MintAmount == 10000
HopAmount == 50

\* No function of lib/ has been called.
LibIdle ==
  /\ fn = "none"
  /\ store = FALSE
  /\ counterContractAccount = "unset"
  /\ thrown = ""
  /\ calls = << >>
  /\ step = 0
  /\ balance = [a \in Holders |-> 0]
  /\ notes = {}
  /\ noteList = {}
  /\ loop_i = 0
  /\ tx = "execute"

\* How the promise of a tutorial action can end.  Without a window every one
\* of the five functions warns on the console and returns, so its promise
\* resolves; in the browser the body runs and resolves, or rejects with the
\* error thrown in it.
action_outcomes(name, win) ==
  IF ~win
  THEN CASE name \in { "createMintConsume", "incrementCounterContract",
                       "foreignProcedureInvocation" } -> { "resolved" }
         [] name \in { "multiSendWithDelegatedProver",
                       "unauthenticatedNoteTransfer" } -> { "resolved" }
  ELSE { "resolved", "rejected" }

\* updateTutorialStatus: nothing without a window, else the entry is replaced.
updateTutorialStatus(status, win, name, state, error) ==
  IF ~win THEN status
  ELSE [status EXCEPT ![name] = [state |-> state, error |-> error]]

Init ==
  /\ window_defined = TRUE
  /\ PageIdle
  /\ LibIdle
  /\ catalogs = Catalogs
  /\ page_errors = 0
  /\ test = NoTest
  /\ tests_run = {}
  /\ argv \in ArgLists
  /\ args = argv
  /\ pc = "parse"
  /\ run_web = 0 /\ run_rust = 0 /\ saw_selector = 0
  /\ web_names = << >> /\ rust_names = << >> /\ failures = << >>
  /\ web_pattern = << >>
  /\ rust_retries = 0 /\ idx = 0 /\ attempt = 0
  /\ runs_dir \in { "absent", "dir", "file" }
  /\ masm \in IF runs_dir = "dir"
              THEN { "absent", "symlink", "dangling", "other" }
              ELSE { "absent" }
  /\ run_dirs = {}
  /\ target = "stale"
  /\ now = 0 /\ pid = 1
  /\ run_seconds \in 0..MaxRunSeconds
  /\ TUTORIAL_RETRIES \in RetryEnv
  /\ events = << >> /\ notices = << >> /\ summary = << >>
  /\ err = "none" /\ exit_code = -1

\* The invocations with longer name lists, in a clean checkout (no runs
\* directory yet) and with one attempt per tutorial.
InitSel ==
  /\ window_defined = TRUE
  /\ PageIdle
  /\ LibIdle
  /\ catalogs = Catalogs
  /\ page_errors = 0
  /\ test = NoTest
  /\ tests_run = {}
  /\ argv \in SelArgLists
  /\ args = argv
  /\ pc = "parse"
  /\ run_web = 0 /\ run_rust = 0 /\ saw_selector = 0
  /\ web_names = << >> /\ rust_names = << >> /\ failures = << >>
  /\ web_pattern = << >>
  /\ rust_retries = 0 /\ idx = 0 /\ attempt = 0
  /\ runs_dir = "absent"
  /\ masm = "absent"
  /\ run_dirs = {}
  /\ target = "stale"
  /\ now = 0 /\ pid = 1
  /\ run_seconds = 1
  /\ TUTORIAL_RETRIES = [set |-> TRUE, val |-> 1]
  /\ events = << >> /\ notices = << >> /\ summary = << >>
  /\ err = "none" /\ exit_code = -1

(* ------------------------- argument parsing --------------------------- *)
Exit(code, why) ==
  /\ pc' = "exit"
  /\ exit_code' = code
  /\ err' = why

\* (mutant) --web never takes the next argument as its value
ParseWeb_noValue ==
  /\ pc = "parse" /\ args # << >> /\ Head(args).flag = "--web"
  /\ saw_selector' = 1
  /\ run_web' = 1
  /\ args' = Tail(args)
  /\ UNCHANGED << argv, pc, run_rust, web_names, rust_names, failures,
                  web_pattern, rust_retries, idx, attempt, runs_dir, masm,
                  run_dirs, target, now, pid, run_seconds, TUTORIAL_RETRIES,
                  events, notices, summary, err, exit_code, window_defined,
                  tutorialStatus, isRunning, inFlight, settled, console,
                  clicks, catalogs, page_errors, test, tests_run, fn, store,
                  counterContractAccount, thrown, calls, step, balance, notes,
                  noteList, loop_i, tx >>

\* --web) with or without a following value
ParseWeb ==
  /\ pc = "parse" /\ args # << >> /\ Head(args).flag = "--web"
  /\ saw_selector' = 1
  /\ run_web' = 1
  /\ IF Len(args) > 1 /\ ~StartsWithDashes(args[2])
     THEN /\ web_names' = add_web_names(web_names, ArgText(args[2]))
          /\ args' = Tail(Tail(args))
     ELSE /\ web_names' = web_names
          /\ args' = Tail(args)
  /\ UNCHANGED << argv, pc, run_rust, rust_names, failures, web_pattern,
                  rust_retries, idx, attempt, runs_dir, masm, run_dirs,
                  target, now, pid, run_seconds, TUTORIAL_RETRIES, events,
                  notices, summary, err, exit_code, window_defined,
                  tutorialStatus, isRunning, inFlight, settled, console,
                  clicks, catalogs, page_errors, test, tests_run, fn, store,
                  counterContractAccount, thrown, calls, step, balance, notes,
                  noteList, loop_i, tx >>

\* --web=*)
ParseWebEq ==
  /\ pc = "parse" /\ args # << >> /\ Head(args).flag = "--web="
  /\ saw_selector' = 1
  /\ run_web' = 1
  /\ web_names' = add_web_names(web_names, Head(args).val)
  /\ args' = Tail(args)
  /\ UNCHANGED << argv, pc, run_rust, rust_names, failures, web_pattern,
                  rust_retries, idx, attempt, runs_dir, masm, run_dirs,
                  target, now, pid, run_seconds, TUTORIAL_RETRIES, events,
                  notices, summary, err, exit_code, window_defined,
                  tutorialStatus, isRunning, inFlight, settled, console,
                  clicks, catalogs, page_errors, test, tests_run, fn, store,
                  counterContractAccount, thrown, calls, step, balance, notes,
                  noteList, loop_i, tx >>

\* --rust) with or without a following value
ParseRust ==
  /\ pc = "parse" /\ args # << >> /\ Head(args).flag = "--rust"
  /\ saw_selector' = 1
  /\ run_rust' = 1
  /\ IF Len(args) > 1 /\ ~StartsWithDashes(args[2])
     THEN /\ rust_names' = add_rust_names(rust_names, ArgText(args[2]))
          /\ args' = Tail(Tail(args))
     ELSE /\ rust_names' = rust_names
          /\ args' = Tail(args)
  /\ UNCHANGED << argv, pc, run_web, web_names, failures, web_pattern,
                  rust_retries, idx, attempt, runs_dir, masm, run_dirs,
                  target, now, pid, run_seconds, TUTORIAL_RETRIES, events,
                  notices, summary, err, exit_code, window_defined,
                  tutorialStatus, isRunning, inFlight, settled, console,
                  clicks, catalogs, page_errors, test, tests_run, fn, store,
                  counterContractAccount, thrown, calls, step, balance, notes,
                  noteList, loop_i, tx >>

\* --rust=*)
ParseRustEq ==
  /\ pc = "parse" /\ args # << >> /\ Head(args).flag = "--rust="
  /\ saw_selector' = 1
  /\ run_rust' = 1
  /\ rust_names' = add_rust_names(rust_names, Head(args).val)
  /\ args' = Tail(args)
  /\ UNCHANGED << argv, pc, run_web, web_names, failures, web_pattern,
                  rust_retries, idx, attempt, runs_dir, masm, run_dirs,
                  target, now, pid, run_seconds, TUTORIAL_RETRIES, events,
                  notices, summary, err, exit_code, window_defined,
                  tutorialStatus, isRunning, inFlight, settled, console,
                  clicks, catalogs, page_errors, test, tests_run, fn, store,
                  counterContractAccount, thrown, calls, step, balance, notes,
                  noteList, loop_i, tx >>

\* (mutant) --list prints the catalogs and the parsing goes on
ParseList_noExit ==
  /\ pc = "parse" /\ args # << >> /\ Head(args).flag = "--list"
  /\ args' = Tail(args)
  /\ UNCHANGED << argv, pc, run_web, run_rust, saw_selector, web_names,
                  rust_names, failures, web_pattern, rust_retries, idx,
                  attempt, runs_dir, masm, run_dirs, target, now, pid,
                  run_seconds, TUTORIAL_RETRIES, events, notices, summary,
                  err, exit_code, window_defined, tutorialStatus, isRunning,
                  inFlight, settled, console, clicks, catalogs, page_errors,
                  test, tests_run, fn, store, counterContractAccount, thrown,
                  calls, step, balance, notes, noteList, loop_i, tx >>

\* --list) prints the catalogs and exits 0
ParseList ==
  /\ pc = "parse" /\ args # << >> /\ Head(args).flag = "--list"
  /\ Exit(0, "none")
  /\ UNCHANGED << argv, args, run_web, run_rust, saw_selector, web_names,
                  rust_names, failures, web_pattern, rust_retries, idx,
                  attempt, runs_dir, masm, run_dirs, target, now, pid,
                  run_seconds, TUTORIAL_RETRIES, events, notices, summary,
                  window_defined, tutorialStatus, isRunning, inFlight,
                  settled, console, clicks, catalogs, page_errors, test,
                  tests_run, fn, store, counterContractAccount, thrown, calls,
                  step, balance, notes, noteList, loop_i, tx >>

\* --help|-h) prints the usage and exits 0
ParseHelp ==
  /\ pc = "parse" /\ args # << >> /\ Head(args).flag \in { "--help", "-h" }
  /\ Exit(0, "none")
  /\ UNCHANGED << argv, args, run_web, run_rust, saw_selector, web_names,
                  rust_names, failures, web_pattern, rust_retries, idx,
                  attempt, runs_dir, masm, run_dirs, target, now, pid,
                  run_seconds, TUTORIAL_RETRIES, events, notices, summary,
                  window_defined, tutorialStatus, isRunning, inFlight,
                  settled, console, clicks, catalogs, page_errors, test,
                  tests_run, fn, store, counterContractAccount, thrown, calls,
                  step, balance, notes, noteList, loop_i, tx >>

\* (mutant) an unknown argument is passed over
ParseUnknown_skip ==
  /\ pc = "parse" /\ args # << >> /\ Head(args).flag \in { "--other", "word" }
  /\ args' = Tail(args)
  /\ UNCHANGED << argv, pc, run_web, run_rust, saw_selector, web_names,
                  rust_names, failures, web_pattern, rust_retries, idx,
                  attempt, runs_dir, masm, run_dirs, target, now, pid,
                  run_seconds, TUTORIAL_RETRIES, events, notices, summary,
                  err, exit_code, window_defined, tutorialStatus, isRunning,
                  inFlight, settled, console, clicks, catalogs, page_errors,
                  test, tests_run, fn, store, counterContractAccount, thrown,
                  calls, step, balance, notes, noteList, loop_i, tx >>

\* *) Unknown argument
ParseUnknown ==
  /\ pc = "parse" /\ args # << >> /\ Head(args).flag \in { "--other", "word" }
  /\ Exit(1, "unknown_argument")
  /\ UNCHANGED << argv, args, run_web, run_rust, saw_selector, web_names,
                  rust_names, failures, web_pattern, rust_retries, idx,
                  attempt, runs_dir, masm, run_dirs, target, now, pid,
                  run_seconds, TUTORIAL_RETRIES, events, notices, summary,
                  window_defined, tutorialStatus, isRunning, inFlight,
                  settled, console, clicks, catalogs, page_errors, test,
                  tests_run, fn, store, counterContractAccount, thrown, calls,
                  step, balance, notes, noteList, loop_i, tx >>

\* (mutant) both classes run whatever was selected
ParseDone_both ==
  /\ pc = "parse" /\ args = << >>
  /\ run_web' = 1
  /\ run_rust' = 1
  /\ pc' = "web"
  /\ UNCHANGED << argv, args, saw_selector, web_names, rust_names, failures,
                  web_pattern, rust_retries, idx, attempt, runs_dir, masm,
                  run_dirs, target, now, pid, run_seconds, TUTORIAL_RETRIES,
                  events, notices, summary, err, exit_code, window_defined,
                  tutorialStatus, isRunning, inFlight, settled, console,
                  clicks, catalogs, page_errors, test, tests_run, fn, store,
                  counterContractAccount, thrown, calls, step, balance, notes,
                  noteList, loop_i, tx >>

\* The loop ends; with no selector both classes run.
ParseDone ==
  /\ pc = "parse" /\ args = << >>
  /\ run_web' = IF saw_selector = 0 THEN 1 ELSE run_web
  /\ run_rust' = IF saw_selector = 0 THEN 1 ELSE run_rust
  /\ pc' = "web"
  /\ UNCHANGED << argv, args, saw_selector, web_names, rust_names, failures,
                  web_pattern, rust_retries, idx, attempt, runs_dir, masm,
                  run_dirs, target, now, pid, run_seconds, TUTORIAL_RETRIES,
                  events, notices, summary, err, exit_code, window_defined,
                  tutorialStatus, isRunning, inFlight, settled, console,
                  clicks, catalogs, page_errors, test, tests_run, fn, store,
                  counterContractAccount, thrown, calls, step, balance, notes,
                  noteList, loop_i, tx >>

(* ---------------------------- web block ------------------------------- *)
NoDir == run_dir("", 0, 0, 0)

WebSkip ==
  /\ pc = "web" /\ run_web # 1
  /\ pc' = "rust"
  /\ UNCHANGED << argv, args, run_web, run_rust, saw_selector, web_names,
                  rust_names, failures, web_pattern, rust_retries, idx,
                  attempt, runs_dir, masm, run_dirs, target, now, pid,
                  run_seconds, TUTORIAL_RETRIES, events, notices, summary,
                  err, exit_code, window_defined, tutorialStatus, isRunning,
                  inFlight, settled, console, clicks, catalogs, page_errors,
                  test, tests_run, fn, store, counterContractAccount, thrown,
                  calls, step, balance, notes, noteList, loop_i, tx >>

\* No name was given: the catalog without the skipped names.
WebDefault ==
  /\ pc = "web" /\ run_web = 1
  /\ web_names' = IF Len(web_names) = 0
                  THEN default_names(catalogs.WEB_EXAMPLES, catalogs.WEB_SKIPPED)
                  ELSE web_names
  /\ pc' = "web_validate"
  /\ UNCHANGED << argv, args, run_web, run_rust, saw_selector, rust_names,
                  failures, web_pattern, rust_retries, idx, attempt, runs_dir,
                  masm, run_dirs, target, now, pid, run_seconds,
                  TUTORIAL_RETRIES, events, notices, summary, err, exit_code,
                  window_defined, tutorialStatus, isRunning, inFlight,
                  settled, console, clicks, catalogs, page_errors, test,
                  tests_run, fn, store, counterContractAccount, thrown, calls,
                  step, balance, notes, noteList, loop_i, tx >>

\* The validation loop: exit 1 at the first unknown name, a note for every
\* skipped name met before.
WebValidate ==
  /\ pc = "web_validate"
  /\ LET bad == first_unknown(web_names, catalogs.WEB_EXAMPLES, 1)
     IN  IF bad # 0
         THEN /\ notices' = notices \o skip_notes(web_names, catalogs.WEB_SKIPPED, bad)
              /\ Exit(1, "unknown_web")
         ELSE /\ notices' = notices
                     \o skip_notes(web_names, catalogs.WEB_SKIPPED, Len(web_names) + 1)
              /\ pc' = "web_run"
              /\ UNCHANGED << err, exit_code >>
  /\ UNCHANGED << argv, args, run_web, run_rust, saw_selector, web_names,
                  rust_names, failures, web_pattern, rust_retries, idx,
                  attempt, runs_dir, masm, run_dirs, target, now, pid,
                  run_seconds, TUTORIAL_RETRIES, events, summary,
                  window_defined, tutorialStatus, isRunning, inFlight,
                  settled, console, clicks, catalogs, page_errors, test,
                  tests_run, fn, store, counterContractAccount, thrown, calls,
                  step, balance, notes, noteList, loop_i, tx >>

\* (mutant) a failed playwright run is recorded once per selected name
WebRun_perName ==
  /\ pc = "web_run"
  /\ web_pattern' = join(web_names, "|")
  /\ tests_run' = grep_tests(join(web_names, "|"))
  /\ \E st \in { 0, 1 } :
       /\ events' = Append(events, Event("web", 0, 0, NoDir, st))
       /\ failures' = IF st # 0
                      THEN failures \o [i \in DOMAIN web_names |-> << "web" >>]
                      ELSE failures
  /\ pc' = "rust"
  /\ UNCHANGED << argv, args, run_web, run_rust, saw_selector, web_names,
                  rust_names, rust_retries, idx, attempt, runs_dir, masm,
                  run_dirs, target, now, pid, run_seconds, TUTORIAL_RETRIES,
                  notices, summary, err, exit_code, window_defined,
                  tutorialStatus, isRunning, inFlight, settled, console,
                  clicks, catalogs, page_errors, test, fn, store,
                  counterContractAccount, thrown, calls, step, balance, notes,
                  noteList, loop_i, tx >>

\* (mutant) a failed playwright run ends the script
WebRun_failFast ==
  /\ pc = "web_run"
  /\ web_pattern' = join(web_names, "|")
  /\ tests_run' = grep_tests(join(web_names, "|"))
  /\ \E st \in { 0, 1 } :
       /\ events' = Append(events, Event("web", 0, 0, NoDir, st))
       /\ IF st # 0
          THEN failures' = Append(failures, << "web" >>) /\ Exit(1, "failures")
          ELSE /\ pc' = "rust"
               /\ UNCHANGED << failures, exit_code, err >>
  /\ UNCHANGED << argv, args, run_web, run_rust, saw_selector, web_names,
                  rust_names, rust_retries, idx, attempt, runs_dir, masm,
                  run_dirs, target, now, pid, run_seconds, TUTORIAL_RETRIES,
                  notices, summary, window_defined, tutorialStatus, isRunning,
                  inFlight, settled, console, clicks, catalogs, page_errors,
                  test, fn, store, counterContractAccount, thrown, calls,
                  step, balance, notes, noteList, loop_i, tx >>

\* yarn playwright test --grep "$web_pattern", once; a failure is recorded.
WebRun ==
  /\ pc = "web_run"
  /\ web_pattern' = join(web_names, "|")
  /\ tests_run' = grep_tests(join(web_names, "|"))
  /\ \E st \in { 0, 1 } :
       /\ events' = Append(events, Event("web", 0, 0, NoDir, st))
       /\ failures' = IF st # 0 THEN Append(failures, << "web" >>) ELSE failures
  /\ pc' = "rust"
  /\ UNCHANGED << argv, args, run_web, run_rust, saw_selector, web_names,
                  rust_names, rust_retries, idx, attempt, runs_dir, masm,
                  run_dirs, target, now, pid, run_seconds, TUTORIAL_RETRIES,
                  notices, summary, err, exit_code, window_defined,
                  tutorialStatus, isRunning, inFlight, settled, console,
                  clicks, catalogs, page_errors, test, fn, store,
                  counterContractAccount, thrown, calls, step, balance, notes,
                  noteList, loop_i, tx >>

(* ---------------------------- rust block ------------------------------ *)
RustSkip ==
  /\ pc = "rust" /\ run_rust # 1
  /\ pc' = "summary"
  /\ UNCHANGED << argv, args, run_web, run_rust, saw_selector, web_names,
                  rust_names, failures, web_pattern, rust_retries, idx,
                  attempt, runs_dir, masm, run_dirs, target, now, pid,
                  run_seconds, TUTORIAL_RETRIES, events, notices, summary,
                  err, exit_code, window_defined, tutorialStatus, isRunning,
                  inFlight, settled, console, clicks, catalogs, page_errors,
                  test, tests_run, fn, store, counterContractAccount, thrown,
                  calls, step, balance, notes, noteList, loop_i, tx >>

\* (mutant) the skipped names are filtered out of the catalog itself
RustDefault_inPlace ==
  /\ pc = "rust" /\ run_rust = 1
  /\ rust_names' = IF Len(rust_names) = 0
                   THEN default_names(catalogs.RUST_EXAMPLES, catalogs.RUST_SKIPPED)
                   ELSE rust_names
  /\ pc' = "rust_validate"
  /\ catalogs' = [catalogs EXCEPT !.RUST_EXAMPLES =
                   default_names(catalogs.RUST_EXAMPLES, catalogs.RUST_SKIPPED)]
  /\ UNCHANGED << argv, args, run_web, run_rust, saw_selector, web_names,
                  failures, web_pattern, rust_retries, idx, attempt, runs_dir,
                  masm, run_dirs, target, now, pid, run_seconds,
                  TUTORIAL_RETRIES, events, notices, summary, err, exit_code,
                  window_defined, tutorialStatus, isRunning, inFlight,
                  settled, console, clicks, page_errors, test, tests_run, fn,
                  store, counterContractAccount, thrown, calls, step, balance,
                  notes, noteList, loop_i, tx >>

\* No name was given: the catalog without the skipped names.
RustDefault ==
  /\ pc = "rust" /\ run_rust = 1
  /\ rust_names' = IF Len(rust_names) = 0
                   THEN default_names(catalogs.RUST_EXAMPLES, catalogs.RUST_SKIPPED)
                   ELSE rust_names
  /\ pc' = "rust_validate"
  /\ UNCHANGED << argv, args, run_web, run_rust, saw_selector, web_names,
                  failures, web_pattern, rust_retries, idx, attempt, runs_dir,
                  masm, run_dirs, target, now, pid, run_seconds,
                  TUTORIAL_RETRIES, events, notices, summary, err, exit_code,
                  window_defined, tutorialStatus, isRunning, inFlight,
                  settled, console, clicks, catalogs, page_errors, test,
                  tests_run, fn, store, counterContractAccount, thrown, calls,
                  step, balance, notes, noteList, loop_i, tx >>

RustValidate ==
  /\ pc = "rust_validate"
  /\ LET bad == first_unknown(rust_names, catalogs.RUST_EXAMPLES, 1)
     IN  IF bad # 0
         THEN /\ notices' = notices \o skip_notes(rust_names, catalogs.RUST_SKIPPED, bad)
              /\ Exit(1, "unknown_rust")
         ELSE /\ notices' = notices
                     \o skip_notes(rust_names, catalogs.RUST_SKIPPED, Len(rust_names) + 1)
              /\ pc' = "clean"
              /\ UNCHANGED << err, exit_code >>
  /\ UNCHANGED << argv, args, run_web, run_rust, saw_selector, web_names,
                  rust_names, failures, web_pattern, rust_retries, idx,
                  attempt, runs_dir, masm, run_dirs, target, now, pid,
                  run_seconds, TUTORIAL_RETRIES, events, summary,
                  window_defined, tutorialStatus, isRunning, inFlight,
                  settled, console, clicks, catalogs, page_errors, test,
                  tests_run, fn, store, counterContractAccount, thrown, calls,
                  step, balance, notes, noteList, loop_i, tx >>

\* (mutant) cargo clean leaves the build outputs where they are
CargoClean_keep ==
  /\ pc = "clean"
  /\ \E st \in { 0, 1 } :
       /\ events' = Append(events, Event("clean", 0, 0, NoDir, st))
       /\ IF st # 0
          THEN Exit(st, "errexit")
          ELSE pc' = "mkdir" /\ UNCHANGED << err, exit_code >>
  /\ UNCHANGED << argv, args, run_web, run_rust, saw_selector, web_names,
                  rust_names, failures, web_pattern, rust_retries, idx,
                  attempt, runs_dir, masm, run_dirs, target, now, pid,
                  run_seconds, TUTORIAL_RETRIES, notices, summary,
                  window_defined, tutorialStatus, isRunning, inFlight,
                  settled, console, clicks, catalogs, page_errors, test,
                  tests_run, fn, store, counterContractAccount, thrown, calls,
                  step, balance, notes, noteList, loop_i, tx >>

\* cargo clean under set -e: a non-zero status ends the script with it; done,
\* it has removed the build outputs.
CargoClean ==
  /\ pc = "clean"
  /\ \E st \in { 0, 1 } :
       /\ events' = Append(events, Event("clean", 0, 0, NoDir, st))
       /\ target' = IF st = 0 THEN "clean" ELSE target
       /\ IF st # 0
          THEN Exit(st, "errexit")
          ELSE pc' = "mkdir" /\ UNCHANGED << err, exit_code >>
  /\ UNCHANGED << argv, args, run_web, run_rust, saw_selector, web_names,
                  rust_names, failures, web_pattern, rust_retries, idx,
                  attempt, runs_dir, masm, run_dirs, now, pid, run_seconds,
                  TUTORIAL_RETRIES, notices, summary, window_defined,
                  tutorialStatus, isRunning, inFlight, settled, console,
                  clicks, catalogs, page_errors, test, tests_run, fn, store,
                  counterContractAccount, thrown, calls, step, balance, notes,
                  noteList, loop_i, tx >>

\* mkdir -p "$RUNS_DIR" under set -e: it fails when the path is a file.
MkdirRuns ==
  /\ pc = "mkdir"
  /\ IF runs_dir = "file"
     THEN Exit(1, "errexit") /\ UNCHANGED runs_dir
     ELSE runs_dir' = "dir" /\ pc' = "check_masm" /\ UNCHANGED << err, exit_code >>
  /\ UNCHANGED << argv, args, run_web, run_rust, saw_selector, web_names,
                  rust_names, failures, web_pattern, rust_retries, idx,
                  attempt, masm, run_dirs, target, now, pid, run_seconds,
                  TUTORIAL_RETRIES, events, notices, summary, window_defined,
                  tutorialStatus, isRunning, inFlight, settled, console,
                  clicks, catalogs, page_errors, test, tests_run, fn, store,
                  counterContractAccount, thrown, calls, step, balance, notes,
                  noteList, loop_i, tx >>

\* [[ -e masm && ! -L masm ]]: something that is not a symlink is in the way.
CheckMasm ==
  /\ pc = "check_masm"
  /\ IF masm = "other"
     THEN Exit(1, "masm_not_symlink")
     ELSE pc' = "link_masm" /\ UNCHANGED << err, exit_code >>
  /\ UNCHANGED << argv, args, run_web, run_rust, saw_selector, web_names,
                  rust_names, failures, web_pattern, rust_retries, idx,
                  attempt, runs_dir, masm, run_dirs, target, now, pid,
                  run_seconds, TUTORIAL_RETRIES, events, notices, summary,
                  window_defined, tutorialStatus, isRunning, inFlight,
                  settled, console, clicks, catalogs, page_errors, test,
                  tests_run, fn, store, counterContractAccount, thrown, calls,
                  step, balance, notes, noteList, loop_i, tx >>

\* (mutant) ln -sf: the link is made anew whatever is there
LinkMasm_force ==
  /\ pc = "link_masm"
  /\ masm' = "symlink"
  /\ pc' = "retries"
  /\ UNCHANGED << argv, args, run_web, run_rust, saw_selector, web_names,
                  rust_names, failures, web_pattern, rust_retries, idx,
                  attempt, runs_dir, run_dirs, target, now, pid, run_seconds,
                  TUTORIAL_RETRIES, events, notices, summary, err, exit_code,
                  window_defined, tutorialStatus, isRunning, inFlight,
                  settled, console, clicks, catalogs, page_errors, test,
                  tests_run, fn, store, counterContractAccount, thrown, calls,
                  step, balance, notes, noteList, loop_i, tx >>

\* [[ ! -e masm ]] && ln -s: -e follows the link, so a dangling link is
\* "not there" and ln -s fails on it (set -e); a good link is left alone.
LinkMasm ==
  /\ pc = "link_masm"
  /\ IF masm = "dangling"
     THEN Exit(1, "errexit") /\ UNCHANGED masm
     ELSE /\ masm' = "symlink"
          /\ pc' = "retries"
          /\ UNCHANGED << err, exit_code >>
  /\ UNCHANGED << argv, args, run_web, run_rust, saw_selector, web_names,
                  rust_names, failures, web_pattern, rust_retries, idx,
                  attempt, runs_dir, run_dirs, target, now, pid, run_seconds,
                  TUTORIAL_RETRIES, events, notices, summary, window_defined,
                  tutorialStatus, isRunning, inFlight, settled, console,
                  clicks, catalogs, page_errors, test, tests_run, fn, store,
                  counterContractAccount, thrown, calls, step, balance, notes,
                  noteList, loop_i, tx >>

\* rust_retries="${TUTORIAL_RETRIES:-3}"
ReadRetries ==
  /\ pc = "retries"
  /\ rust_retries' = IF TUTORIAL_RETRIES.set THEN TUTORIAL_RETRIES.val
                     ELSE DefaultRetries
  /\ pc' = "for"
  /\ UNCHANGED << argv, args, run_web, run_rust, saw_selector, web_names,
                  rust_names, failures, web_pattern, idx, attempt, runs_dir,
                  masm, run_dirs, target, now, pid, run_seconds,
                  TUTORIAL_RETRIES, events, notices, summary, err, exit_code,
                  window_defined, tutorialStatus, isRunning, inFlight,
                  settled, console, clicks, catalogs, page_errors, test,
                  tests_run, fn, store, counterContractAccount, thrown, calls,
                  step, balance, notes, noteList, loop_i, tx >>

\* (mutant) a recorded rust failure ends the loop over the names
RustFor_stopOnFailure ==
  /\ pc = "for"
  /\ IF idx < Len(rust_names)
          /\ \A j \in DOMAIN failures : failures[j][1] # "rust"
     THEN idx' = idx + 1 /\ attempt' = 1 /\ pc' = "attempt"
     ELSE pc' = "summary" /\ UNCHANGED << idx, attempt >>
  /\ UNCHANGED << argv, args, run_web, run_rust, saw_selector, web_names,
                  rust_names, failures, web_pattern, rust_retries, runs_dir,
                  masm, run_dirs, target, now, pid, run_seconds,
                  TUTORIAL_RETRIES, events, notices, summary, err, exit_code,
                  window_defined, tutorialStatus, isRunning, inFlight,
                  settled, console, clicks, catalogs, page_errors, test,
                  tests_run, fn, store, counterContractAccount, thrown, calls,
                  step, balance, notes, noteList, loop_i, tx >>

\* for name in "${rust_names[@]}"; attempt=1
RustFor ==
  /\ pc = "for"
  /\ IF idx < Len(rust_names)
     THEN idx' = idx + 1 /\ attempt' = 1 /\ pc' = "attempt"
     ELSE pc' = "summary" /\ UNCHANGED << idx, attempt >>
  /\ UNCHANGED << argv, args, run_web, run_rust, saw_selector, web_names,
                  rust_names, failures, web_pattern, rust_retries, runs_dir,
                  masm, run_dirs, target, now, pid, run_seconds,
                  TUTORIAL_RETRIES, events, notices, summary, err, exit_code,
                  window_defined, tutorialStatus, isRunning, inFlight,
                  settled, console, clicks, catalogs, page_errors, test,
                  tests_run, fn, store, counterContractAccount, thrown, calls,
                  step, balance, notes, noteList, loop_i, tx >>

\* (mutant) the script also sleeps after the last failed attempt
Attempt_sleepAfterLast ==
  /\ pc = "attempt"
  /\ LET name == rust_names[idx]
         dir == run_dir(name, now, pid, attempt)
     IN  \E st \in { 0, 1 } :
           /\ st # 0 => NativeFailures < MaxFailures
           /\ run_dirs' = run_dirs \cup { dir }
           /\ target' \in IF st = 0 THEN { "built" } ELSE { target, "built" }
           /\ LET outcome == attempt_outcome(st, attempt, rust_retries)
                  ran == Event("run", idx, attempt, dir, st)
              IN  CASE outcome = "break" ->
                         /\ events' = Append(events, ran)
                         /\ now' = now + run_seconds
                         /\ pc' = "for"
                         /\ UNCHANGED << failures, attempt >>
                    [] outcome = "record" ->
                         /\ events' = events
                              \o << ran, Event("sleep", idx, attempt, NoDir, 0) >>
                         /\ now' = now + run_seconds + SleepSeconds
                         /\ failures' = Append(failures, << "rust", name >>)
                         /\ pc' = "for"
                         /\ UNCHANGED attempt
                    [] outcome = "retry" ->
                         /\ events' = events
                              \o << ran, Event("sleep", idx, attempt, NoDir, 0) >>
                         /\ now' = now + run_seconds + SleepSeconds
                         /\ attempt' = attempt + 1
                         /\ UNCHANGED << failures, pc >>
  /\ UNCHANGED << argv, args, run_web, run_rust, saw_selector, web_names,
                  rust_names, web_pattern, rust_retries, idx, runs_dir, masm,
                  pid, run_seconds, TUTORIAL_RETRIES, notices, summary, err,
                  exit_code, window_defined, tutorialStatus, isRunning,
                  inFlight, settled, console, clicks, catalogs, page_errors,
                  test, tests_run, fn, store, counterContractAccount, thrown,
                  calls, step, balance, notes, noteList, loop_i, tx >>

\* (mutant) the script does not wait for the tutorial to end
Attempt_noWait ==
  /\ pc = "attempt"
  /\ LET name == rust_names[idx]
         dir == run_dir(name, now, pid, attempt)
     IN  \E st \in { 0, 1 } :
           /\ st # 0 => NativeFailures < MaxFailures
           /\ run_dirs' = run_dirs \cup { dir }
           /\ target' \in IF st = 0 THEN { "built" } ELSE { target, "built" }
           /\ LET outcome == attempt_outcome(st, attempt, rust_retries)
                  ran == Event("run", idx, attempt, dir, st)
              IN  CASE outcome = "break" ->
                         /\ events' = Append(events, ran)
                         /\ now' = now
                         /\ pc' = "for"
                         /\ UNCHANGED << failures, attempt >>
                    [] outcome = "record" ->
                         /\ events' = Append(events, ran)
                         /\ now' = now
                         /\ failures' = Append(failures, << "rust", name >>)
                         /\ pc' = "for"
                         /\ UNCHANGED attempt
                    [] outcome = "retry" ->
                         /\ events' = events
                              \o << ran, Event("sleep", idx, attempt, NoDir, 0) >>
                         /\ now' = now + run_seconds + SleepSeconds
                         /\ attempt' = attempt + 1
                         /\ UNCHANGED << failures, pc >>
  /\ UNCHANGED << argv, args, run_web, run_rust, saw_selector, web_names,
                  rust_names, web_pattern, rust_retries, idx, runs_dir, masm,
                  pid, run_seconds, TUTORIAL_RETRIES, notices, summary, err,
                  exit_code, window_defined, tutorialStatus, isRunning,
                  inFlight, settled, console, clicks, catalogs, page_errors,
                  test, tests_run, fn, store, counterContractAccount, thrown,
                  calls, step, balance, notes, noteList, loop_i, tx >>

\* One turn of "while true": the run directory, the tutorial, then break on
\* success, record and break on the last attempt, or sleep and try again.
\* The tutorial exits with st after run_seconds of wall clock; at most
\* MaxFailures tutorials of an invocation fail.  cargo run builds into the
\* shared target directory: a tutorial that ran has left its build there, one
\* that failed may have.
Attempt ==
  /\ pc = "attempt"
  /\ LET name == rust_names[idx]
         dir == run_dir(name, now, pid, attempt)
     IN  \E st \in { 0, 1 } :
           /\ st # 0 => NativeFailures < MaxFailures
           /\ run_dirs' = run_dirs \cup { dir }
           /\ target' \in IF st = 0 THEN { "built" } ELSE { target, "built" }
           /\ LET outcome == attempt_outcome(st, attempt, rust_retries)
                  ran == Event("run", idx, attempt, dir, st)
              IN  CASE outcome = "break" ->
                         /\ events' = Append(events, ran)
                         /\ now' = now + run_seconds
                         /\ pc' = "for"
                         /\ UNCHANGED << failures, attempt >>
                    [] outcome = "record" ->
                         /\ events' = Append(events, ran)
                         /\ now' = now + run_seconds
                         /\ failures' = Append(failures, << "rust", name >>)
                         /\ pc' = "for"
                         /\ UNCHANGED attempt
                    [] outcome = "retry" ->
                         /\ events' = events
                              \o << ran, Event("sleep", idx, attempt, NoDir, 0) >>
                         /\ now' = now + run_seconds + SleepSeconds
                         /\ attempt' = attempt + 1
                         /\ UNCHANGED << failures, pc >>
  /\ UNCHANGED << argv, args, run_web, run_rust, saw_selector, web_names,
                  rust_names, web_pattern, rust_retries, idx, runs_dir, masm,
                  pid, run_seconds, TUTORIAL_RETRIES, notices, summary, err,
                  exit_code, window_defined, tutorialStatus, isRunning,
                  inFlight, settled, console, clicks, catalogs, page_errors,
                  test, tests_run, fn, store, counterContractAccount, thrown,
                  calls, step, balance, notes, noteList, loop_i, tx >>

(* ------------------------------ summary ------------------------------- *)
\* (mutant) the failures are listed but the exit status stays 0
Summary_exitZero ==
  /\ pc = "summary"
  /\ summary' = failures
  /\ pc' = "done"
  /\ exit_code' = 0
  /\ UNCHANGED << argv, args, run_web, run_rust, saw_selector, web_names,
                  rust_names, failures, web_pattern, rust_retries, idx,
                  attempt, runs_dir, masm, run_dirs, target, now, pid,
                  run_seconds, TUTORIAL_RETRIES, events, notices, err,
                  window_defined, tutorialStatus, isRunning, inFlight,
                  settled, console, clicks, catalogs, page_errors, test,
                  tests_run, fn, store, counterContractAccount, thrown, calls,
                  step, balance, notes, noteList, loop_i, tx >>

\* Failures are listed and the script exits 1; without any it ends with 0.
Summary ==
  /\ pc = "summary"
  /\ IF Len(failures) > 0
     THEN summary' = failures /\ Exit(1, "failures")
     ELSE /\ pc' = "done"
          /\ exit_code' = 0
          /\ UNCHANGED << summary, err >>
  /\ UNCHANGED << argv, args, run_web, run_rust, saw_selector, web_names,
                  rust_names, failures, web_pattern, rust_retries, idx,
                  attempt, runs_dir, masm, run_dirs, target, now, pid,
                  run_seconds, TUTORIAL_RETRIES, events, notices,
                  window_defined, tutorialStatus, isRunning, inFlight,
                  settled, console, clicks, catalogs, page_errors, test,
                  tests_run, fn, store, counterContractAccount, thrown, calls,
                  step, balance, notes, noteList, loop_i, tx >>

Next ==
  \/ ParseWeb \/ ParseWebEq \/ ParseRust \/ ParseRustEq
  \/ ParseList \/ ParseHelp \/ ParseUnknown \/ ParseDone
  \/ WebSkip \/ WebDefault \/ WebValidate \/ WebRun
  \/ RustSkip \/ RustDefault \/ RustValidate
  \/ CargoClean \/ MkdirRuns \/ CheckMasm \/ LinkMasm \/ ReadRetries
  \/ RustFor \/ Attempt \/ Summary

Spec == Init /\ [][Next]_vars

SpecSel == InitSel /\ [][Next]_vars

\* The script keeps running: bash goes on to its next command, and every
\* command it waits for comes to an end.
FairSpec == Spec /\ WF_vars(Next)

(* ------------------------ the page: runTutorial ----------------------- *)
\* The page alone: the script is not running.
InitPage ==
  /\ window_defined \in BOOLEAN
  /\ PageIdle
  /\ LibIdle
  /\ catalogs = Catalogs
  /\ page_errors = 0
  /\ test = NoTest
  /\ tests_run = {}
  /\ argv = << >> /\ args = << >>
  /\ pc = "page"
  /\ run_web = 0 /\ run_rust = 0 /\ saw_selector = 0
  /\ web_names = << >> /\ rust_names = << >> /\ failures = << >>
  /\ web_pattern = << >>
  /\ rust_retries = 0 /\ idx = 0 /\ attempt = 0
  /\ runs_dir = "absent" /\ masm = "absent"
  /\ run_dirs = {}
  /\ target = "stale"
  /\ now = 0 /\ pid = 1
  /\ run_seconds = 0
  /\ TUTORIAL_RETRIES = [set |-> FALSE, val |-> 0]
  /\ events = << >> /\ notices = << >> /\ summary = << >>
  /\ err = "none" /\ exit_code = -1

\* runTutorial up to "await action()": the flag is set, "running" is
\* recorded and the action is called; without a window the action warns.
RunTutorialStart(name) ==
  /\ pc = "page" /\ clicks < MaxClicks
  /\ clicks' = clicks + 1
  /\ isRunning' = [isRunning EXCEPT ![name] = TRUE]
  /\ tutorialStatus' =
       updateTutorialStatus(tutorialStatus, window_defined, name, "running", "")
  /\ inFlight' = [inFlight EXCEPT ![name] = @ + 1]
  /\ console' = IF window_defined THEN console
                ELSE [console EXCEPT !.warn = @ + 1]
  /\ UNCHANGED << argv, args, pc, run_web, run_rust, saw_selector, web_names,
                  rust_names, failures, web_pattern, rust_retries, idx,
                  attempt, runs_dir, masm, run_dirs, target, now, pid,
                  run_seconds, TUTORIAL_RETRIES, events, notices, summary,
                  err, exit_code, window_defined, settled, catalogs,
                  page_errors, test, tests_run, fn, store,
                  counterContractAccount, thrown, calls, step, balance, notes,
                  noteList, loop_i, tx >>

\* (mutant) no catch: the error leaves runTutorial, only finally runs
RunTutorialSettle_rethrow(name) ==
  /\ pc = "page" /\ inFlight[name] > 0
  /\ inFlight' = [inFlight EXCEPT ![name] = @ - 1]
  /\ \E outcome \in action_outcomes(name, window_defined) :
       /\ settled' = [settled EXCEPT ![name] = outcome]
       /\ IF outcome = "resolved"
          THEN /\ tutorialStatus' =
                    updateTutorialStatus(tutorialStatus, window_defined, name,
                                         "passed", "")
               /\ page_errors' = page_errors
          ELSE /\ tutorialStatus' = tutorialStatus
               /\ page_errors' = page_errors + 1
  /\ isRunning' = [isRunning EXCEPT ![name] = FALSE]
  /\ UNCHANGED << argv, args, pc, run_web, run_rust, saw_selector, web_names,
                  rust_names, failures, web_pattern, rust_retries, idx,
                  attempt, runs_dir, masm, run_dirs, target, now, pid,
                  run_seconds, TUTORIAL_RETRIES, events, notices, summary,
                  err, exit_code, window_defined, console, clicks, catalogs,
                  test, tests_run, fn, store, counterContractAccount, thrown,
                  calls, step, balance, notes, noteList, loop_i, tx >>

\* The promise of a pending action settles and runTutorial goes on: "passed",
\* or console.error and "failed" with the error, and the flag is reset.
RunTutorialSettle(name) ==
  /\ pc = "page" /\ inFlight[name] > 0
  /\ inFlight' = [inFlight EXCEPT ![name] = @ - 1]
  /\ \E outcome \in action_outcomes(name, window_defined) :
       /\ settled' = [settled EXCEPT ![name] = outcome]
       /\ IF outcome = "resolved"
          THEN /\ tutorialStatus' =
                    updateTutorialStatus(tutorialStatus, window_defined, name,
                                         "passed", "")
               /\ console' = console
          ELSE /\ tutorialStatus' =
                    updateTutorialStatus(tutorialStatus, window_defined, name,
                                         "failed", "Error")
               /\ console' = [console EXCEPT !.error = @ + 1]
  /\ isRunning' = [isRunning EXCEPT ![name] = FALSE]
  /\ UNCHANGED << argv, args, pc, run_web, run_rust, saw_selector, web_names,
                  rust_names, failures, web_pattern, rust_retries, idx,
                  attempt, runs_dir, masm, run_dirs, target, now, pid,
                  run_seconds, TUTORIAL_RETRIES, events, notices, summary,
                  err, exit_code, window_defined, clicks, catalogs,
                  page_errors, test, tests_run, fn, store,
                  counterContractAccount, thrown, calls, step, balance, notes,
                  noteList, loop_i, tx >>

Click == \E name \in TutorialNames : RunTutorialStart(name)
Settle == \E name \in TutorialNames : RunTutorialSettle(name)

NextPage == Click \/ Settle

SpecPage == InitPage /\ [][NextPage]_vars

(* ------------------- playwright --grep for a selection --------------- *)
\* The selections of at most MaxSelection different web names, in any order.
WebSelections ==
  LET names == { WEB_EXAMPLES[i] : i \in DOMAIN WEB_EXAMPLES }
  IN  { sel \in UNION { [1..n -> names] : n \in 1..MaxSelection } :
          \A i, j \in DOMAIN sel : i # j => sel[i] # sel[j] }

\* The script is about to run playwright for a validated web selection.
InitGrep ==
  /\ window_defined = TRUE
  /\ PageIdle
  /\ LibIdle
  /\ catalogs = Catalogs
  /\ page_errors = 0
  /\ test = NoTest
  /\ tests_run = {}
  /\ argv = << >> /\ args = << >>
  /\ pc = "web_run"
  /\ run_web = 1 /\ run_rust = 0 /\ saw_selector = 1
  /\ web_names \in WebSelections
  /\ rust_names = << >> /\ failures = << >>
  /\ web_pattern = << >>
  /\ rust_retries = 0 /\ idx = 0 /\ attempt = 0
  /\ runs_dir = "absent" /\ masm = "absent"
  /\ run_dirs = {}
  /\ target = "stale"
  /\ now = 0 /\ pid = 1
  /\ run_seconds = 0
  /\ TUTORIAL_RETRIES = [set |-> FALSE, val |-> 0]
  /\ events = << >> /\ notices = << >> /\ summary = << >>
  /\ err = "none" /\ exit_code = -1

NextGrep == WebRun

SpecGrep == InitGrep /\ [][NextGrep]_vars

(* ---------------------- the playwright test of a tutorial ------------- *)
\* The test of one tutorial on a freshly loaded page in the browser, its
\* console and pageerror listeners attached.
InitTest ==
  /\ window_defined = TRUE
  /\ PageIdle
  /\ LibIdle
  /\ catalogs = Catalogs
  /\ page_errors = 0
  /\ test \in { [name |-> n, verdict |-> "none", why |-> ""] :
                  n \in TutorialNames }
  /\ tests_run = {}
  /\ argv = << >> /\ args = << >>
  /\ pc = "page"
  /\ run_web = 0 /\ run_rust = 0 /\ saw_selector = 0
  /\ web_names = << >> /\ rust_names = << >> /\ failures = << >>
  /\ web_pattern = << >>
  /\ rust_retries = 0 /\ idx = 0 /\ attempt = 0
  /\ runs_dir = "absent" /\ masm = "absent"
  /\ run_dirs = {}
  /\ target = "stale"
  /\ now = 0 /\ pid = 1
  /\ run_seconds = 0
  /\ TUTORIAL_RETRIES = [set |-> FALSE, val |-> 0]
  /\ events = << >> /\ notices = << >> /\ summary = << >>
  /\ err = "none" /\ exit_code = -1

\* What the listeners of the test have collected.
consoleErrors == console.error + page_errors

\* (mutant) the collected console errors are not looked at
test_verdict_noConsole(status, errors) ==
  IF status.state = "failed"
  THEN [verdict |-> "failed", why |-> "failed"]
  ELSE IF status.state = "passed"
  THEN [verdict |-> "passed", why |-> ""]
  ELSE [verdict |-> "failed", why |-> "expect"]

\* The checks after waitForFunction: collected errors, then a "failed"
\* status, then the expectation that the status is "passed".
test_verdict(status, errors) ==
  IF errors > 0
  THEN [verdict |-> "failed", why |-> "console"]
  ELSE IF status.state = "failed"
  THEN [verdict |-> "failed", why |-> "failed"]
  ELSE IF status.state = "passed"
  THEN [verdict |-> "passed", why |-> ""]
  ELSE [verdict |-> "failed", why |-> "expect"]

\* page.getByTestId(testId).click(): the one click of the test.
TestClick ==
  /\ test.verdict = "none" /\ clicks = 0
  /\ RunTutorialStart(test.name)

\* The action of the clicked tutorial settles.
TestSettle ==
  /\ test.verdict \in { "none", "failed" }
  /\ RunTutorialSettle(test.name)

\* An uncaught error on the page while the test is listening.
PageError ==
  /\ test.verdict = "none" /\ page_errors < MaxPageErrors
  /\ page_errors' = page_errors + 1
  /\ UNCHANGED << argv, args, pc, run_web, run_rust, saw_selector, web_names,
                  rust_names, failures, web_pattern, rust_retries, idx,
                  attempt, runs_dir, masm, run_dirs, target, now, pid,
                  run_seconds, TUTORIAL_RETRIES, events, notices, summary,
                  err, exit_code, window_defined, tutorialStatus, isRunning,
                  inFlight, settled, console, clicks, catalogs, test,
                  tests_run, fn, store, counterContractAccount, thrown, calls,
                  step, balance, notes, noteList, loop_i, tx >>

\* waitForFunction sees a terminal state; the status is read and checked.
TestVerdict ==
  /\ test.verdict = "none"
  /\ tutorialStatus[test.name].state \in { "passed", "failed" }
  /\ LET v == test_verdict(tutorialStatus[test.name], consoleErrors)
     IN  test' = [test EXCEPT !.verdict = v.verdict, !.why = v.why]
  /\ UNCHANGED << argv, args, pc, run_web, run_rust, saw_selector, web_names,
                  rust_names, failures, web_pattern, rust_retries, idx,
                  attempt, runs_dir, masm, run_dirs, target, now, pid,
                  run_seconds, TUTORIAL_RETRIES, events, notices, summary,
                  err, exit_code, window_defined, tutorialStatus, isRunning,
                  inFlight, settled, console, clicks, catalogs, page_errors,
                  tests_run, fn, store, counterContractAccount, thrown, calls,
                  step, balance, notes, noteList, loop_i, tx >>

\* No terminal state within tutorialTimeoutMs: waitForFunction throws.
TestTimeout ==
  /\ test.verdict = "none"
  /\ tutorialStatus[test.name].state \notin { "passed", "failed" }
  /\ test' = [test EXCEPT !.verdict = "failed", !.why = "timeout"]
  /\ UNCHANGED << argv, args, pc, run_web, run_rust, saw_selector, web_names,
                  rust_names, failures, web_pattern, rust_retries, idx,
                  attempt, runs_dir, masm, run_dirs, target, now, pid,
                  run_seconds, TUTORIAL_RETRIES, events, notices, summary,
                  err, exit_code, window_defined, tutorialStatus, isRunning,
                  inFlight, settled, console, clicks, catalogs, page_errors,
                  tests_run, fn, store, counterContractAccount, thrown, calls,
                  step, balance, notes, noteList, loop_i, tx >>

NextTest == TestClick \/ TestSettle \/ PageError \/ TestVerdict \/ TestTimeout

SpecTest == InitTest /\ [][NextTest]_vars

(* -------------------- the tutorial functions of lib/ ------------------ *)
\* The functions that look the counter contract up, and all three modelled.
CounterFunctions == { "incrementCounterContract", "foreignProcedureInvocation" }
LibFunctions == CounterFunctions \cup { "unauthenticatedNoteTransfer" }

\* The steps of a function after its lookup block, in order.
later_steps(f) ==
  IF f = "incrementCounterContract"
  THEN << "compileAccountComponentCode", "newAccount", "syncState",
          "compileTxScript", "submitNewTransaction", "syncState",
          "getAccount" >>
  ELSE << "getItem", "compileAccountComponentCode", "compileTxScript",
          "submitNewTransaction", "syncState", "getAccount" >>

\* One client call as far as the counter contract goes: the value of the
\* variable at the call and whether the store holds the account.
Call(name) ==
  [call |-> name, account |-> counterContractAccount, found |-> store]

\* A function of lib/ is called, in the browser or not, with the counter
\* contract already in the store of an earlier run or not.
InitLib ==
  /\ window_defined \in BOOLEAN
  /\ PageIdle
  /\ catalogs = Catalogs
  /\ page_errors = 0
  /\ test = NoTest
  /\ tests_run = {}
  /\ argv = << >> /\ args = << >>
  /\ pc = "lib"
  /\ run_web = 0 /\ run_rust = 0 /\ saw_selector = 0
  /\ web_names = << >> /\ rust_names = << >> /\ failures = << >>
  /\ web_pattern = << >>
  /\ rust_retries = 0 /\ idx = 0 /\ attempt = 0
  /\ runs_dir = "absent" /\ masm = "absent"
  /\ run_dirs = {}
  /\ target = "stale"
  /\ now = 0 /\ pid = 1
  /\ run_seconds = 0
  /\ TUTORIAL_RETRIES = [set |-> FALSE, val |-> 0]
  /\ events = << >> /\ notices = << >> /\ summary = << >>
  /\ err = "none" /\ exit_code = -1
  /\ fn \in LibFunctions
  /\ store \in IF fn \in CounterFunctions THEN BOOLEAN ELSE { FALSE }
  /\ counterContractAccount = "unset"
  /\ thrown = ""
  /\ calls = << >>
  /\ step = 0
  /\ balance = [a \in Holders |-> 0]
  /\ notes = {}
  /\ noteList = {}
  /\ loop_i = 0
  /\ tx = "execute"

\* if (typeof window === 'undefined') { console.warn(...); return; }
LibStart ==
  /\ pc = "lib"
  /\ IF window_defined
     THEN pc' = "setup" /\ UNCHANGED console
     ELSE /\ console' = [console EXCEPT !.warn = @ + 1]
          /\ pc' = "returned"
  /\ UNCHANGED << argv, args, run_web, run_rust, saw_selector, web_names,
                  rust_names, failures, web_pattern, rust_retries, idx,
                  attempt, runs_dir, masm, run_dirs, target, now, pid,
                  run_seconds, TUTORIAL_RETRIES, events, notices, summary,
                  err, exit_code, window_defined, tutorialStatus, isRunning,
                  inFlight, settled, clicks, catalogs, page_errors, test,
                  tests_run, fn, store, counterContractAccount, thrown, calls,
                  step, balance, notes, noteList, loop_i, tx >>

\* What comes before the lookup or the mint: the import of the sdk,
\* createClient, syncState, and the accounts the function creates (the count
\* reader contract; Alice, the five wallets and the faucet).  Any of the
\* calls may reject.
LibSetup ==
  /\ pc = "setup"
  /\ \E ok \in BOOLEAN :
       IF ok
       THEN /\ pc' = IF fn \in CounterFunctions THEN "getAccount" ELSE "mint"
            /\ UNCHANGED thrown
       ELSE pc' = "rejected" /\ thrown' = "setup"
  /\ UNCHANGED << argv, args, run_web, run_rust, saw_selector, web_names,
                  rust_names, failures, web_pattern, rust_retries, idx,
                  attempt, runs_dir, masm, run_dirs, target, now, pid,
                  run_seconds, TUTORIAL_RETRIES, events, notices, summary,
                  err, exit_code, window_defined, tutorialStatus, isRunning,
                  inFlight, settled, console, clicks, catalogs, page_errors,
                  test, tests_run, fn, store, counterContractAccount, calls,
                  step, balance, notes, noteList, loop_i, tx >>

\* let counterContractAccount = await client.getAccount(counterContractId);
\* if (!counterContractAccount) { ... }
GetAccount ==
  /\ pc = "getAccount"
  /\ \E ok \in BOOLEAN :
       IF ok
       THEN /\ counterContractAccount' = IF store THEN "account" ELSE "undefined"
            /\ calls' = Append(calls, Call("getAccount"))
            /\ pc' = IF store THEN "later" ELSE "importAccountById"
            /\ UNCHANGED thrown
       ELSE /\ pc' = "rejected" /\ thrown' = "getAccount"
            /\ UNCHANGED << counterContractAccount, calls >>
  /\ UNCHANGED << argv, args, run_web, run_rust, saw_selector, web_names,
                  rust_names, failures, web_pattern, rust_retries, idx,
                  attempt, runs_dir, masm, run_dirs, target, now, pid,
                  run_seconds, TUTORIAL_RETRIES, events, notices, summary,
                  err, exit_code, window_defined, tutorialStatus, isRunning,
                  inFlight, settled, console, clicks, catalogs, page_errors,
                  test, tests_run, fn, store, step, balance, notes, noteList,
                  loop_i, tx >>

\* await client.importAccountById(counterContractId): the account is
\* fetched into the store, or the call resolves without it, or rejects.
ImportAccountById ==
  /\ pc = "importAccountById"
  /\ \E outcome \in { "stored", "nothing", "rejects" } :
       IF outcome = "rejects"
       THEN /\ pc' = "rejected" /\ thrown' = "importAccountById"
            /\ UNCHANGED << store, calls >>
       ELSE /\ calls' = Append(calls, Call("importAccountById"))
            /\ store' = (outcome = "stored")
            /\ pc' = "syncState"
            /\ UNCHANGED thrown
  /\ UNCHANGED << argv, args, run_web, run_rust, saw_selector, web_names,
                  rust_names, failures, web_pattern, rust_retries, idx,
                  attempt, runs_dir, masm, run_dirs, target, now, pid,
                  run_seconds, TUTORIAL_RETRIES, events, notices, summary,
                  err, exit_code, window_defined, tutorialStatus, isRunning,
                  inFlight, settled, console, clicks, catalogs, page_errors,
                  test, tests_run, fn, counterContractAccount, step, balance,
                  notes, noteList, loop_i, tx >>

\* await client.syncState() of the lookup block: a sync may bring the state
\* of an account the client tracks.
SyncState ==
  /\ pc = "syncState"
  /\ \E outcome \in { "synced", "rejects" } :
       IF outcome = "rejects"
       THEN /\ pc' = "rejected" /\ thrown' = "syncState"
            /\ UNCHANGED << store, calls >>
       ELSE /\ calls' = Append(calls, Call("syncState"))
            /\ store' \in { store, TRUE }
            /\ pc' = "getAccountAgain"
            /\ UNCHANGED thrown
  /\ UNCHANGED << argv, args, run_web, run_rust, saw_selector, web_names,
                  rust_names, failures, web_pattern, rust_retries, idx,
                  attempt, runs_dir, masm, run_dirs, target, now, pid,
                  run_seconds, TUTORIAL_RETRIES, events, notices, summary,
                  err, exit_code, window_defined, tutorialStatus, isRunning,
                  inFlight, settled, console, clicks, catalogs, page_errors,
                  test, tests_run, fn, counterContractAccount, step, balance,
                  notes, noteList, loop_i, tx >>

\* (mutant) the second lookup is not checked
GetAccountAgain_noThrow ==
  /\ pc = "getAccountAgain"
  /\ \E ok \in BOOLEAN :
       IF ok
       THEN /\ counterContractAccount' = IF store THEN "account" ELSE "undefined"
            /\ calls' = Append(calls, Call("getAccount"))
            /\ pc' = "later"
            /\ UNCHANGED thrown
       ELSE /\ pc' = "rejected" /\ thrown' = "getAccount"
            /\ UNCHANGED << counterContractAccount, calls >>
  /\ UNCHANGED << argv, args, run_web, run_rust, saw_selector, web_names,
                  rust_names, failures, web_pattern, rust_retries, idx,
                  attempt, runs_dir, masm, run_dirs, target, now, pid,
                  run_seconds, TUTORIAL_RETRIES, events, notices, summary,
                  err, exit_code, window_defined, tutorialStatus, isRunning,
                  inFlight, settled, console, clicks, catalogs, page_errors,
                  test, tests_run, fn, store, step, balance, notes, noteList,
                  loop_i, tx >>

\* counterContractAccount = await client.getAccount(counterContractId);
\* if (!counterContractAccount) throw new Error('Account not found after import')
GetAccountAgain ==
  /\ pc = "getAccountAgain"
  /\ \E ok \in BOOLEAN :
       IF ok
       THEN /\ counterContractAccount' = IF store THEN "account" ELSE "undefined"
            /\ calls' = Append(calls, Call("getAccount"))
            /\ IF store
               THEN pc' = "later" /\ UNCHANGED thrown
               ELSE pc' = "rejected" /\ thrown' = "Account not found after import"
       ELSE /\ pc' = "rejected" /\ thrown' = "getAccount"
            /\ UNCHANGED << counterContractAccount, calls >>
  /\ UNCHANGED << argv, args, run_web, run_rust, saw_selector, web_names,
                  rust_names, failures, web_pattern, rust_retries, idx,
                  attempt, runs_dir, masm, run_dirs, target, now, pid,
                  run_seconds, TUTORIAL_RETRIES, events, notices, summary,
                  err, exit_code, window_defined, tutorialStatus, isRunning,
                  inFlight, settled, console, clicks, catalogs, page_errors,
                  test, tests_run, fn, store, step, balance, notes, noteList,
                  loop_i, tx >>

\* The next step after the lookup block; nothing in the function takes an
\* account out of the store.
LaterStep ==
  /\ pc = "later"
  /\ LET steps == later_steps(fn)
     IN  \E ok \in BOOLEAN :
           IF ok
           THEN /\ calls' = Append(calls, Call(steps[step + 1]))
                /\ step' = step + 1
                /\ pc' = IF step + 1 = Len(steps) THEN "returned" ELSE "later"
                /\ UNCHANGED thrown
           ELSE /\ pc' = "rejected" /\ thrown' = steps[step + 1]
                /\ UNCHANGED << calls, step >>
  /\ UNCHANGED << argv, args, run_web, run_rust, saw_selector, web_names,
                  rust_names, failures, web_pattern, rust_retries, idx,
                  attempt, runs_dir, masm, run_dirs, target, now, pid,
                  run_seconds, TUTORIAL_RETRIES, events, notices, summary,
                  err, exit_code, window_defined, tutorialStatus, isRunning,
                  inFlight, settled, console, clicks, catalogs, page_errors,
                  test, tests_run, fn, store, counterContractAccount, balance,
                  notes, noteList, loop_i, tx >>

(* ------------------ unauthenticatedNoteTransfer ----------------------- *)
\* executeTransaction, proveTransaction, submitProvenTransaction and
\* applyTransaction, one after the other.
next_stage(t) ==
  CASE t = "execute" -> "prove"
    [] t = "prove" -> "submit"
    [] t = "submit" -> "apply"
    [] t = "apply" -> "execute"

\* How a stage of a transaction ends: any call may reject; the execution
\* rejects a transaction that is not valid; applyTransaction writes the
\* result into the client's store.
tx_outcome(t, ok, valid) ==
  IF ~ok \/ (t = "execute" /\ ~valid) THEN "rejects"
  ELSE IF t = "apply" THEN "applied"
  ELSE "next"

\* A note: id 0 for the minted one, the number of the hop for a P2ID note.
Note(id, from, to, amount, state) ==
  [id |-> id, sender |-> from, target |-> to, amount |-> amount,
   state |-> state]

\* sender = i === 0 ? alice : wallets[i - 1]; receiver = wallets[i]
sender(k) == IF k = 0 THEN alice ELSE wallets[k]
receiver(k) == wallets[k + 1]

RECURSIVE total(_)
total(ns) ==
  IF ns = {} THEN 0
  ELSE LET n == CHOOSE m \in ns : TRUE IN n.amount + total(ns \ { n })

\* The faucet mints 10 000 MID to Alice as a public note.
Mint ==
  /\ pc = "mint"
  /\ \E ok \in BOOLEAN :
       LET r == tx_outcome(tx, ok, TRUE)
       IN  CASE r = "rejects" ->
                  /\ pc' = "rejected" /\ thrown' = tx
                  /\ UNCHANGED << tx, notes >>
             [] r = "next" ->
                  /\ tx' = next_stage(tx)
                  /\ UNCHANGED << pc, thrown, notes >>
             [] r = "applied" ->
                  /\ notes' = notes \cup
                       { Note(0, "faucet", alice, MintAmount, "created") }
                  /\ tx' = "execute"
                  /\ pc' = "wait"
                  /\ UNCHANGED thrown
  /\ UNCHANGED << argv, args, run_web, run_rust, saw_selector, web_names,
                  rust_names, failures, web_pattern, rust_retries, idx,
                  attempt, runs_dir, masm, run_dirs, target, now, pid,
                  run_seconds, TUTORIAL_RETRIES, events, notices, summary,
                  err, exit_code, window_defined, tutorialStatus, isRunning,
                  inFlight, settled, console, clicks, catalogs, page_errors,
                  test, tests_run, fn, store, counterContractAccount, calls,
                  step, balance, noteList, loop_i >>

\* 7 seconds, syncState, getConsumableNotes(alice.id()): the notes for Alice
\* that the network has committed by then.
Wait ==
  /\ pc = "wait"
  /\ \E ok \in BOOLEAN, committed \in BOOLEAN :
       IF ok
       THEN /\ notes' = { IF n.state = "created" /\ n.id = 0 /\ committed
                          THEN [n EXCEPT !.state = "committed"] ELSE n :
                          n \in notes }
            /\ noteList' = { n \in notes' :
                               n.target = alice /\ n.state = "committed" }
            /\ pc' = "consume_mint"
            /\ UNCHANGED thrown
       ELSE /\ pc' = "rejected" /\ thrown' = "syncState"
            /\ UNCHANGED << notes, noteList >>
  /\ UNCHANGED << argv, args, run_web, run_rust, saw_selector, web_names,
                  rust_names, failures, web_pattern, rust_retries, idx,
                  attempt, runs_dir, masm, run_dirs, target, now, pid,
                  run_seconds, TUTORIAL_RETRIES, events, notices, summary,
                  err, exit_code, window_defined, tutorialStatus, isRunning,
                  inFlight, settled, console, clicks, catalogs, page_errors,
                  test, tests_run, fn, store, counterContractAccount, calls,
                  step, balance, loop_i, tx >>

\* Alice consumes noteList; a transaction that consumes nothing and changes
\* nothing is not valid.
ConsumeMint ==
  /\ pc = "consume_mint"
  /\ \E ok \in BOOLEAN :
       LET r == tx_outcome(tx, ok, noteList # {})
       IN  CASE r = "rejects" ->
                  /\ pc' = "rejected" /\ thrown' = tx
                  /\ UNCHANGED << tx, notes, balance >>
             [] r = "next" ->
                  /\ tx' = next_stage(tx)
                  /\ UNCHANGED << pc, thrown, notes, balance >>
             [] r = "applied" ->
                  /\ balance' = [balance EXCEPT ![alice] = @ + total(noteList)]
                  /\ notes' = { IF n \in noteList
                                THEN [n EXCEPT !.state = "consumed"] ELSE n :
                                n \in notes }
                  /\ tx' = "execute"
                  /\ pc' = IF loop_i < Len(wallets) THEN "create" ELSE "completed"
                  /\ UNCHANGED thrown
  /\ UNCHANGED << argv, args, run_web, run_rust, saw_selector, web_names,
                  rust_names, failures, web_pattern, rust_retries, idx,
                  attempt, runs_dir, masm, run_dirs, target, now, pid,
                  run_seconds, TUTORIAL_RETRIES, events, notices, summary,
                  err, exit_code, window_defined, tutorialStatus, isRunning,
                  inFlight, settled, console, clicks, catalogs, page_errors,
                  test, tests_run, fn, store, counterContractAccount, calls,
                  step, noteList, loop_i >>

\* The sender of the hop creates a P2ID note of 50 MID for the receiver; the
\* execution rejects a note the sender's vault does not cover.
CreateNote ==
  /\ pc = "create"
  /\ \E ok \in BOOLEAN :
       LET r == tx_outcome(tx, ok, balance[sender(loop_i)] >= HopAmount)
       IN  CASE r = "rejects" ->
                  /\ pc' = "rejected" /\ thrown' = tx
                  /\ UNCHANGED << tx, notes, balance >>
             [] r = "next" ->
                  /\ tx' = next_stage(tx)
                  /\ UNCHANGED << pc, thrown, notes, balance >>
             [] r = "applied" ->
                  /\ balance' = [balance EXCEPT ![sender(loop_i)] = @ - HopAmount]
                  /\ notes' = notes \cup
                       { Note(loop_i + 1, sender(loop_i), receiver(loop_i),
                              HopAmount, "created") }
                  /\ tx' = "execute"
                  /\ pc' = "consume"
                  /\ UNCHANGED thrown
  /\ UNCHANGED << argv, args, run_web, run_rust, saw_selector, web_names,
                  rust_names, failures, web_pattern, rust_retries, idx,
                  attempt, runs_dir, masm, run_dirs, target, now, pid,
                  run_seconds, TUTORIAL_RETRIES, events, notices, summary,
                  err, exit_code, window_defined, tutorialStatus, isRunning,
                  inFlight, settled, console, clicks, catalogs, page_errors,
                  test, tests_run, fn, store, counterContractAccount, calls,
                  step, noteList, loop_i >>

\* The receiver consumes the note of the hop, handed over as the note itself
\* (unauthenticated); then i++ and the loop test.
ConsumeNote ==
  /\ pc = "consume"
  /\ LET p2idNote == CHOOSE n \in notes : n.id = loop_i + 1
     IN  \E ok \in BOOLEAN :
           LET r == tx_outcome(tx, ok, p2idNote.state = "created")
           IN  CASE r = "rejects" ->
                      /\ pc' = "rejected" /\ thrown' = tx
                      /\ UNCHANGED << tx, notes, balance, loop_i >>
                 [] r = "next" ->
                      /\ tx' = next_stage(tx)
                      /\ UNCHANGED << pc, thrown, notes, balance, loop_i >>
                 [] r = "applied" ->
                      /\ balance' = [balance EXCEPT
                                       ![p2idNote.target] = @ + p2idNote.amount]
                      /\ notes' = (notes \ { p2idNote }) \cup
                                    { [p2idNote EXCEPT !.state = "consumed"] }
                      /\ tx' = "execute"
                      /\ loop_i' = loop_i + 1
                      /\ pc' = IF loop_i + 1 < Len(wallets)
                               THEN "create" ELSE "completed"
                      /\ UNCHANGED thrown
  /\ UNCHANGED << argv, args, run_web, run_rust, saw_selector, web_names,
                  rust_names, failures, web_pattern, rust_retries, idx,
                  attempt, runs_dir, masm, run_dirs, target, now, pid,
                  run_seconds, TUTORIAL_RETRIES, events, notices, summary,
                  err, exit_code, window_defined, tutorialStatus, isRunning,
                  inFlight, settled, console, clicks, catalogs, page_errors,
                  test, tests_run, fn, store, counterContractAccount, calls,
                  step, noteList >>

NextLib ==
  \/ LibStart \/ LibSetup
  \/ GetAccount \/ ImportAccountById \/ SyncState \/ GetAccountAgain
  \/ LaterStep
  \/ Mint \/ Wait \/ ConsumeMint \/ CreateNote \/ ConsumeNote

SpecLib == InitLib /\ [][NextLib]_vars

(* ====================== what the runs are checked for ================= *)
Range(seq) == { seq[i] : i \in DOMAIN seq }
Entries == DOMAIN rust_names
RunsOf(i) == { k \in EventsOf("run") : events[k].entry = i }
AttemptsOf(i) == Cardinality(RunsOf(i))
DirsOf(i) == { events[k].dir : k \in RunsOf(i) }
SleepsOf(i) == Cardinality({ k \in EventsOf("sleep") : events[k].entry = i })
\* The retry loop of entry i has been left.
Finished(i) == idx > i \/ (idx = i /\ pc # "attempt")
AllFailed(i) == \A k \in RunsOf(i) : events[k].status # 0
Exhausted(i) == Finished(i) /\ AllFailed(i)
RecordsOf(name) ==
  Cardinality({ j \in DOMAIN failures : failures[j] = << "rust", name >> })
ExhaustedEntries(name) ==
  { i \in Entries : rust_names[i] = name /\ Exhausted(i) }
Terminated == pc \in { "exit", "done" }
\* The budget the environment asks for: 3 when the variable is unset.
Configured ==
  IF TUTORIAL_RETRIES.set THEN TUTORIAL_RETRIES.val ELSE 3
AtLeastOne(n) == IF n < 1 THEN 1 ELSE n
RetriesRead ==
  /\ run_rust = 1
  /\ pc \in { "for", "attempt", "summary", "done" }
       \/ (pc = "exit" /\ err = "failures")

\* C1 (as amended): an entry of rust_names (a name listed twice is two
\* entries) whose tutorial fails on every attempt is attempted exactly
\* max(1, retries) times, in as many run directories of different names, and
\* then gets exactly one record rust:<name>; no entry is attempted more often
\* than that.  retries is TUTORIAL_RETRIES, 3 when it is unset.
C1_ExactBudget ==
  /\ RetriesRead => rust_retries = Configured
  /\ \A i \in Entries :
       /\ AttemptsOf(i) <= AtLeastOne(Configured)
       /\ Exhausted(i) =>
            /\ AttemptsOf(i) = AtLeastOne(Configured)
            /\ Cardinality(DirsOf(i)) = AtLeastOne(Configured)
  /\ \A name \in Range(rust_names) :
       RecordsOf(name) = Cardinality(ExhaustedEntries(name))

\* C1 as stated: exactly retries attempts for every budget, none attempted
\* more than retries times.
C1_Original ==
  \A i \in Entries :
    /\ AttemptsOf(i) > 0 => AttemptsOf(i) <= Configured
    /\ Exhausted(i) =>
         /\ AttemptsOf(i) = Configured
         /\ Cardinality(DirsOf(i)) = Configured
         /\ RecordsOf(rust_names[i]) = Cardinality(ExhaustedEntries(rust_names[i]))

\* An entry has used up the default budget of three attempts and is recorded.
C1_Witness ==
  /\ ~TUTORIAL_RETRIES.set
  /\ \E i \in Entries :
       Exhausted(i) /\ AttemptsOf(i) = 3 /\ RecordsOf(rust_names[i]) = 1

\* C2: for every entry of rust_names, the attempts stop at the first one that
\* exits zero: when attempt k succeeds, k attempts were made in k run
\* directories, k - 1 sleeps happened, nothing more is run or slept for the
\* entry, and no record is made for it.
C2_StopAtSuccess ==
  /\ \A i \in Entries : \A k \in RunsOf(i) :
       events[k].status = 0 =>
         /\ Finished(i)
         /\ \A j \in RunsOf(i) : j <= k
         /\ AttemptsOf(i) = events[k].attempt
         /\ Cardinality(DirsOf(i)) = events[k].attempt
         /\ SleepsOf(i) = events[k].attempt - 1
         /\ \A j \in EventsOf("sleep") : events[j].entry = i => j < k
  /\ \A name \in Range(rust_names) :
       RecordsOf(name) = Cardinality(ExhaustedEntries(name))

\* An entry succeeded on its second attempt and a later entry is running.
C2_Witness ==
  \E i \in Entries : \E k \in RunsOf(i) :
    /\ events[k].status = 0 /\ events[k].attempt = 2
    /\ idx > i /\ AttemptsOf(idx) > 0

\* C3 as stated: no two attempts ever run in the same run directory.
C3_DistinctDirs ==
  \A j, k \in EventsOf("run") : j # k => events[j].dir # events[k].dir

\* C4 as stated: when an unknown name ends the script, nothing has been
\* started before and no run directory exists.
C4_NothingRunBeforeNameError ==
  (pc = "exit" /\ err \in { "unknown_web", "unknown_rust" }) =>
    events = << >> /\ run_dirs = {}

\* How the script ended, or how far it is.
ListOrHelp ==
  pc = "exit" /\ args # << >> /\ Head(args).flag \in { "--list", "--help", "-h" }
ParseExit == pc = "exit" /\ args # << >>
PastParse == pc # "parse" /\ ~ParseExit
WebResolved == PastParse /\ run_web = 1 /\ pc # "web"
WebDone ==
  /\ PastParse
  /\ pc \notin { "web", "web_validate", "web_run" }
  /\ ~(pc = "exit" /\ err = "unknown_web")
RustResolved == WebDone /\ run_rust = 1 /\ pc # "rust"
SelectionErrors == { "unknown_argument", "unknown_web", "unknown_rust" }
ConfigErrors == SelectionErrors \cup { "masm_not_symlink" }
WebRecords ==
  Cardinality({ j \in DOMAIN failures : failures[j] = << "web" >> })
DefaultWebNames ==
  << "createMintConsume", "multiSendWithDelegatedProver",
     "unauthenticatedNoteTransfer" >>
DefaultRustNames ==
  << "counter_contract_deploy", "create_mint_consume_send", "delegated_prover",
     "hash_preimage_note", "mapping_example", "network_notes_counter_contract",
     "note_creation_in_masm", "unauthenticated_note_transfer" >>

C6_FailuresReported ==
  (Terminated /\ failures # << >>) => (summary = failures /\ exit_code # 0)

\* C7: once a rust tutorial has been attempted, the script ends only after
\* every entry of rust_names has been attempted; the summary of a rust run is
\* reached only then.
C7_AllAttempted ==
  ((Terminated /\ EventsOf("run") # {}) \/ (pc = "summary" /\ run_rust = 1))
    => \A i \in Entries : AttemptsOf(i) >= 1

\* An entry used up its budget and the entries after it were still run.
C7_Witness ==
  /\ Terminated
  /\ \E i \in Entries :
       /\ Exhausted(i) /\ RecordsOf(rust_names[i]) = 1
       /\ i < Len(rust_names)
       /\ \A j \in Entries : AttemptsOf(j) >= 1

\* The alternatives of a pattern: what stands between the "|".
RECURSIVE Alternatives(_)
Alternatives(pattern) ==
  IF pattern = << >> THEN << >>
  ELSE IF Head(pattern) = "|" THEN Alternatives(Tail(pattern))
  ELSE << Head(pattern) >> \o Alternatives(Tail(pattern))

\* C8: playwright is started at most once, exactly once when the web class
\* has run, with the selected names as the alternatives of its pattern; its
\* non-zero exit makes exactly one record "web", its zero exit none.
C8_WebOnce ==
  /\ Cardinality(EventsOf("web")) <= 1
  /\ (WebDone /\ run_web = 1) => Cardinality(EventsOf("web")) = 1
  /\ \A k \in EventsOf("web") :
       /\ Alternatives(web_pattern) = web_names
       /\ WebRecords = IF events[k].status # 0 THEN 1 ELSE 0
  /\ EventsOf("web") = {} => WebRecords = 0

\* Playwright failed for a selection of several names: one record.
C8_Witness ==
  /\ \E k \in EventsOf("web") : events[k].status # 0
  /\ Len(web_names) > 1
  /\ WebRecords = 1

NoClassFlag ==
  \A i \in DOMAIN argv :
    argv[i].flag \notin { "--web", "--web=", "--rust", "--rust=" }

Bare(f) == \E i \in DOMAIN argv : argv[i].flag = f
None(f) == \A i \in DOMAIN argv : argv[i].flag # f
\* The argument after argv[i] is taken as its value: it does not start "--".
ValueFollows(i) == i < Len(argv) /\ argv[i + 1].flag \in { "word", "-h" }

\* C10 as stated: a class flag without "=" gives the default names whatever
\* follows it, and no argument that is not a flag is accepted.
C10_Original ==
  /\ (WebResolved /\ Bare("--web") /\ None("--web="))
       => web_names = DefaultWebNames
  /\ (RustResolved /\ Bare("--rust") /\ None("--rust="))
       => rust_names = DefaultRustNames
  /\ PastParse =>
       \A i \in DOMAIN argv : argv[i].flag \notin { "word", "--other" }

\* C10 (as amended): a class flag without "=" gives the default names when
\* every such flag is the last argument or is followed by an argument that
\* starts with "--"; an argument after it that does not start with "--" is
\* taken as its comma-separated names, and is never reported as unknown; any
\* other argument that is not a flag ends the parsing with an error.
C10_BareFlag ==
  /\ ( /\ WebResolved /\ Bare("--web") /\ None("--web=")
       /\ \A i \in DOMAIN argv : argv[i].flag = "--web" => ~ValueFollows(i) )
       => web_names = DefaultWebNames
  /\ ( /\ RustResolved /\ Bare("--rust") /\ None("--rust=")
       /\ \A i \in DOMAIN argv : argv[i].flag = "--rust" => ~ValueFollows(i) )
       => rust_names = DefaultRustNames
  /\ \A i \in DOMAIN argv :
       (i > 1 /\ argv[i].flag = "word" /\ argv[i - 1].flag = "--web"
          /\ WebResolved)
         => \A c \in Range(argv[i].val) \ { Comma } : c \in Range(web_names)
  /\ \A i \in DOMAIN argv :
       (i > 1 /\ argv[i].flag = "word" /\ argv[i - 1].flag = "--rust"
          /\ RustResolved)
         => \A c \in Range(argv[i].val) \ { Comma } : c \in Range(rust_names)
  /\ (pc = "exit" /\ err = "unknown_argument") =>
       LET p == Len(argv) - Len(args) + 1
       IN  ~( /\ p > 1
              /\ argv[p].flag = "word"
              /\ argv[p - 1].flag \in { "--web", "--rust" } )
  /\ PastParse =>
       \A i \in DOMAIN argv :
         /\ argv[i].flag # "--other"
         /\ argv[i].flag = "word" =>
              i > 1 /\ argv[i - 1].flag \in { "--web", "--rust" }

\* "--web incrementCounterContract": the word became the web selection.
C10_Witness ==
  /\ Len(argv) = 2
  /\ argv[1].flag = "--web"
  /\ argv[2] = [flag |-> "word", val |-> << "incrementCounterContract" >>]
  /\ pc = "rust"
  /\ web_names = << "incrementCounterContract" >>

\* The names written in a value: its characters other than the separator.
NamesIn(value) == SelectSeq(value, LAMBDA c : c # Comma)
NamesOfArg(a) == IF a.flag = "word" THEN NamesIn(a.val) ELSE << a.flag >>

\* The names the command line asks for in a class, from argument i on: those
\* after "=" of its flag and those of the argument taken by its bare flag.
RECURSIVE Requested(_, _, _)
Requested(bare, eq, i) ==
  IF i > Len(argv) THEN << >>
  ELSE IF argv[i].flag = eq
       THEN NamesIn(argv[i].val) \o Requested(bare, eq, i + 1)
  ELSE IF argv[i].flag = bare /\ ValueFollows(i)
       THEN NamesOfArg(argv[i + 1]) \o Requested(bare, eq, i + 2)
  ELSE Requested(bare, eq, i + 1)

RequestedWeb == Requested("--web", "--web=", 1)
RequestedRust == Requested("--rust", "--rust=", 1)
WebValidated == WebDone /\ run_web = 1
RustValidated ==
  /\ RustResolved
  /\ pc # "rust_validate"
  /\ ~(pc = "exit" /\ err = "unknown_rust")
SkippedWebNames == { "incrementCounterContract", "foreignProcedureInvocation" }
SkippedRustNames ==
  { "counter_contract_fpi", "counter_contract_increment", "oracle_data_query" }
WebNotices == SelectSeq(notices, LAMBDA n : n \in Range(WEB_EXAMPLES))
RustNotices == SelectSeq(notices, LAMBDA n : n \in Range(RUST_EXAMPLES))

\* C11: when names are given for a class and all of them are in its catalog,
\* the selection of the class is exactly these names in the order of the
\* command line, skipped by default or not, and the notes printed for the
\* class are exactly its requested names that are skipped by default; no
\* note is printed for any other name, nor when the defaults are used.
C11_ExplicitNames ==
  /\ (WebValidated /\ RequestedWeb # << >>) =>
       /\ web_names = RequestedWeb
       /\ WebNotices = SelectSeq(RequestedWeb, LAMBDA n : n \in SkippedWebNames)
  /\ (RustValidated /\ RequestedRust # << >>) =>
       /\ rust_names = RequestedRust
       /\ RustNotices
            = SelectSeq(RequestedRust, LAMBDA n : n \in SkippedRustNames)
  /\ RequestedWeb = << >> => WebNotices = << >>
  /\ RequestedRust = << >> => RustNotices = << >>
  /\ \A k \in DOMAIN notices :
       notices[k] \in SkippedWebNames \cup SkippedRustNames

\* "--rust=counter_contract_fpi,counter_contract_deploy": both selected in
\* this order, one note, for the skipped one.
C11_Witness ==
  /\ argv = << [flag |-> "--rust=",
                val |-> << "counter_contract_fpi", Comma,
                           "counter_contract_deploy" >>] >>
  /\ pc = "clean"
  /\ rust_names = << "counter_contract_fpi", "counter_contract_deploy" >>
  /\ notices = << "counter_contract_fpi" >>

ListHelpFlags == { "--list", "--help", "-h" }
ClassFlags == { "--web", "--web=", "--rust", "--rust=" }

\* The first argument from i on that is neither a class flag nor the
\* argument taken by a bare class flag before it; 0 if there is none.
RECURSIVE FirstOther(_)
FirstOther(i) ==
  IF i > Len(argv) THEN 0
  ELSE IF argv[i].flag \in { "--web", "--rust" } /\ ValueFollows(i)
       THEN FirstOther(i + 2)
  ELSE IF argv[i].flag \in ClassFlags THEN FirstOther(i + 1)
  ELSE i

ListHelpReached ==
  FirstOther(1) # 0 /\ argv[FirstOther(1)].flag \in ListHelpFlags

\* C12 as stated: an argument list that contains --list, --help or -h ends
\* with status 0 and nothing is run.
C12_Original ==
  (\E i \in DOMAIN argv : argv[i].flag \in ListHelpFlags) =>
    /\ Terminated => exit_code = 0
    /\ events = << >> /\ run_dirs = {}

\* C12 (as amended): when --list, --help or -h is the first argument that is
\* neither a class flag nor taken as the names of a bare class flag, the
\* script goes from the parsing straight to exit 0: nothing is run, no run
\* directory is made, no name is validated.  These are the only runs that
\* end with status 0 without having run anything.
C12_ListHelp ==
  /\ ListHelpReached =>
       /\ pc \in { "parse", "exit" }
       /\ pc = "exit" => exit_code = 0 /\ err = "none"
       /\ events = << >> /\ run_dirs = {} /\ notices = << >>
  /\ (Terminated /\ exit_code = 0 /\ events = << >>) => ListHelpReached

\* "--web=<names> --list": exit 0 although names were given before.
C12_Witness ==
  /\ Len(argv) = 2
  /\ argv[1].flag = "--web=" /\ argv[1].val # << >>
  /\ argv[2].flag = "--list"
  /\ pc = "exit" /\ exit_code = 0

UnknownReached ==
  FirstOther(1) # 0 /\ argv[FirstOther(1)].flag \in { "--other", "word" }

NumberOf(kind) == Cardinality(EventsOf(kind))

\* C14: the script sleeps only between a failed attempt of an entry and the
\* next attempt of the same entry, 10 seconds each time: a sleep comes right
\* after a failed run of its entry and right before the run of the next
\* attempt of that entry; an entry that is over has slept once less than it
\* was attempted; the clock has advanced by the running times and by 10
\* seconds for every sleep, and by nothing else.
C14_OnlyRetryDelay ==
  /\ \A k \in EventsOf("sleep") :
       /\ k > 1
       /\ events[k - 1].ev = "run"
       /\ events[k - 1].status # 0
       /\ events[k - 1].entry = events[k].entry
       /\ events[k - 1].attempt = events[k].attempt
       /\ k < Len(events) =>
            /\ events[k + 1].ev = "run"
            /\ events[k + 1].entry = events[k].entry
            /\ events[k + 1].attempt = events[k].attempt + 1
       /\ k = Len(events) => pc = "attempt" /\ idx = events[k].entry
  /\ \A i \in Entries :
       (Finished(i) /\ AttemptsOf(i) > 0) => SleepsOf(i) = AttemptsOf(i) - 1
  /\ now = run_seconds * NumberOf("run") + 10 * NumberOf("sleep")

\* An entry failed twice with a budget of 2: one sleep, between its two
\* attempts, and the next entry was started without one.
C14_Witness ==
  \E i \in Entries :
    /\ Exhausted(i) /\ AttemptsOf(i) = 2 /\ SleepsOf(i) = 1
    /\ i < Len(rust_names) /\ AttemptsOf(i + 1) > 0
    /\ run_seconds > 0

Runs == EventsOf("run")

\* C15: the rust selection is the requested names in command-line order
\* (over all the flags of the class) or else the defaults in catalog order;
\* the tutorials are started in the order of the selection, attempt after
\* attempt, an entry only after the one before it is over; a tutorial is
\* started only when the one started before it has ended; playwright comes
\* before cargo clean, and cargo clean before every tutorial.
C15_Sequential ==
  /\ RustValidated =>
       rust_names = IF RequestedRust # << >> THEN RequestedRust
                    ELSE DefaultRustNames
  /\ \A k \in Runs :
       /\ events[k].entry \in 1..idx
       /\ events[k].dir.name = rust_names[events[k].entry]
       /\ LET before == { j \in Runs : j < k }
              last == CHOOSE j \in before : \A h \in before : h <= j
          IN  IF before = {}
              THEN events[k].entry = 1 /\ events[k].attempt = 1
              ELSE /\ \/ /\ events[k].entry = events[last].entry
                           /\ events[k].attempt = events[last].attempt + 1
                           /\ events[last].status # 0
                        \/ /\ events[k].entry = events[last].entry + 1
                           /\ events[k].attempt = 1
                   /\ events[k].dir.stamp
                        >= events[last].dir.stamp + run_seconds
  /\ \A w \in EventsOf("web"), c \in EventsOf("clean") : w < c
  /\ \A c \in EventsOf("clean"), k \in Runs : c < k
  /\ NumberOf("clean") <= 1

\* "--rust=counter_contract_fpi --rust=counter_contract_deploy": the two
\* tutorials ran in this order, the second after the first had ended.
C15_Witness ==
  /\ Len(argv) = 2
  /\ argv[1] = [flag |-> "--rust=", val |-> << "counter_contract_fpi" >>]
  /\ argv[2] = [flag |-> "--rust=", val |-> << "counter_contract_deploy" >>]
  /\ run_seconds > 0
  /\ pc = "summary"
  /\ \E j, k \in Runs :
       /\ j < k
       /\ events[j].dir.name = "counter_contract_fpi"
       /\ events[k].dir.name = "counter_contract_deploy"
       /\ events[k].dir.stamp > events[j].dir.stamp

OnlyWeb ==
  /\ Bare("--web") \/ Bare("--web=")
  /\ None("--rust") /\ None("--rust=")
OnlyRust ==
  /\ Bare("--rust") \/ Bare("--rust=")
  /\ None("--web") /\ None("--web=")

\* C16: with class flags of the web class only, cargo clean is never run, no
\* tutorial is started, no attempt directory is made and the runs directory
\* and its masm link are left as they were; with class flags of the rust
\* class only, playwright is never started.
C16_ClassExclusive ==
  /\ [](OnlyWeb =>
          /\ NumberOf("clean") = 0 /\ NumberOf("run") = 0
          /\ NumberOf("sleep") = 0 /\ run_dirs = {}
          /\ rust_names = << >>)
  /\ [][OnlyWeb => (runs_dir' = runs_dir /\ masm' = masm)]_vars
  /\ [](OnlyRust => (NumberOf("web") = 0 /\ web_pattern = << >>))

\* "--web" alone ended after playwright, with no runs directory made.
C16_Witness ==
  /\ OnlyWeb /\ argv = << [flag |-> "--web", val |-> << >>] >>
  /\ pc = "done"
  /\ NumberOf("web") = 1
  /\ runs_dir = "absent"

\* C17 as stated: when the script reports that masm is not a symlink,
\* neither playwright nor any rust tutorial has been run.
C17_MasmFailFast ==
  (pc = "exit" /\ err = "masm_not_symlink") =>
    NumberOf("web") = 0 /\ NumberOf("run") = 0

AfterClean ==
  \/ pc \in { "mkdir", "check_masm", "link_masm", "retries", "for", "attempt" }
  \/ (run_rust = 1 /\ pc \in { "summary", "done" })
  \/ (pc = "exit" /\ err = "failures" /\ run_rust = 1)

\* C18 as stated: cargo clean runs at most once and the first attempt of
\* every selected name starts with no build outputs.
C18_Original ==
  /\ NumberOf("clean") <= 1
  /\ (pc = "attempt" /\ attempt = 1) => target = "clean"

\* C18 (as amended): when the rust class runs, cargo clean is run exactly
\* once, after all rust names were found in the catalog and before the first
\* tutorial; no attempt starts with build outputs older than the invocation,
\* and the very first attempt starts with none at all; every attempt after a
\* tutorial that ran starts with the outputs of the builds before it.
C18_CleanOnce ==
  /\ NumberOf("clean") <= 1
  /\ AfterClean =>
       \E c \in EventsOf("clean") :
         /\ events[c].status = 0
         /\ \A k \in Runs : c < k
  /\ NumberOf("clean") > 0 =>
       \A i \in DOMAIN rust_names : rust_names[i] \in Range(RUST_EXAMPLES)
  /\ pc = "attempt" =>
       /\ target # "stale"
       /\ NumberOf("run") = 0 => target = "clean"
       /\ (\E k \in Runs : events[k].status = 0) => target = "built"

\* The second selected tutorial is about to start after the first one ran:
\* its first attempt finds the build of the first.
C18_Witness ==
  /\ pc = "attempt" /\ idx = 2 /\ attempt = 1
  /\ NumberOf("clean") = 1
  /\ target = "built"

\* C19 as stated: without a window the promise of multiSendWithDelegatedProver
\* and of unauthenticatedNoteTransfer is rejected.
C19_ThrowsOutsideBrowser ==
  \A name \in { "multiSendWithDelegatedProver", "unauthenticatedNoteTransfer" } :
    (~window_defined /\ settled[name] # "none") => settled[name] = "rejected"

NoRepeat(seq) == \A i, j \in DOMAIN seq : i # j => seq[i] # seq[j]

\* C20: at every moment of an invocation the four catalogs are what they
\* were at its start; every name skipped by default is a name of the full
\* catalog of its class, and no name stands twice in a catalog.
C20_CatalogInvariant ==
  /\ catalogs = Catalogs
  /\ \A n \in Range(catalogs.WEB_SKIPPED) : n \in Range(catalogs.WEB_EXAMPLES)
  /\ \A n \in Range(catalogs.RUST_SKIPPED) : n \in Range(catalogs.RUST_EXAMPLES)
  /\ NoRepeat(catalogs.WEB_EXAMPLES) /\ NoRepeat(catalogs.WEB_SKIPPED)
  /\ NoRepeat(catalogs.RUST_EXAMPLES) /\ NoRepeat(catalogs.RUST_SKIPPED)
  /\ Len(catalogs.WEB_EXAMPLES) = 5 /\ Len(catalogs.WEB_SKIPPED) = 2
  /\ Len(catalogs.RUST_EXAMPLES) = 11 /\ Len(catalogs.RUST_SKIPPED) = 3

\* Both defaults were taken from the catalogs, and the run went on to its
\* summary.
C20_Witness ==
  /\ argv = << >>
  /\ pc = "summary"
  /\ Len(web_names) = 3 /\ Len(rust_names) = 8
  /\ NumberOf("run") >= 8

\* C21: the runs directory changes only when mkdir -p makes it where nothing
\* was, and the masm link only when ln -s makes it where nothing was; a link
\* that is there is left as it is, and no attempt of a tutorial changes
\* either of them.
C21_SharedReadOnly ==
  [][ /\ runs_dir' # runs_dir =>
           (pc = "mkdir" /\ runs_dir = "absent" /\ runs_dir' = "dir")
      /\ masm' # masm =>
           (pc = "link_masm" /\ masm = "absent" /\ masm' = "symlink")
      /\ pc \in { "for", "attempt" } =>
           (runs_dir' = runs_dir /\ masm' = masm
              /\ runs_dir = "dir" /\ masm = "symlink") ]_vars

\* Several attempts have run and the directory and the link are in place.
C21_Witness ==
  /\ pc = "for"
  /\ runs_dir = "dir" /\ masm = "symlink"
  /\ NumberOf("run") >= 2 /\ NumberOf("sleep") >= 1
  /\ Cardinality(run_dirs) >= 2

TestStatus == tutorialStatus[test.name]

\* C22: the test of a tutorial passes only with the status "passed" and no
\* console error or page error collected; a verdict after a status "failed"
\* or after any collected error is "failed", and so is the verdict when no
\* terminal state came in time; a tutorial whose action threw never passes.
C22_TestVerdict ==
  /\ test.verdict = "passed" =>
       /\ TestStatus.state = "passed"
       /\ console.error = 0 /\ page_errors = 0
       /\ settled[test.name] = "resolved"
  /\ (test.verdict \notin { "none", "off" }
        /\ (TestStatus.state = "failed" \/ consoleErrors > 0))
       => test.verdict = "failed"
  /\ (test.verdict = "failed" /\ test.why = "timeout") =>
       (clicks = 0 \/ inFlight[test.name] > 0 \/ settled[test.name] # "none")
  /\ (test.verdict = "failed" /\ test.why = "failed") =>
       TestStatus.state = "failed"
  /\ settled[test.name] = "rejected" => test.verdict \in { "none", "failed" }

\* The action threw: the page logged the error and recorded "failed", and
\* the test failed.
C22_Witness ==
  /\ settled[test.name] = "rejected"
  /\ TestStatus.state = "failed"
  /\ test.verdict = "failed" /\ test.why = "console"

\* C23: in the browser, while the first run of a tutorial is pending its
\* status is "running" and its flag is set; when no run of it is pending any
\* more, the status is "passed" if the last action resolved and "failed"
\* with the error text if it rejected, the flag is reset, and the error has
\* not left runTutorial; a status is there exactly for the clicked tutorials.
C23_RunTutorial ==
  window_defined =>
    /\ page_errors = 0
    /\ \A name \in TutorialNames :
         /\ (inFlight[name] > 0 /\ settled[name] = "none") =>
              /\ tutorialStatus[name] = [state |-> "running", error |-> ""]
              /\ isRunning[name]
         /\ (inFlight[name] = 0 /\ settled[name] = "resolved") =>
              /\ tutorialStatus[name] = [state |-> "passed", error |-> ""]
              /\ ~isRunning[name]
         /\ (inFlight[name] = 0 /\ settled[name] = "rejected") =>
              /\ tutorialStatus[name] = [state |-> "failed", error |-> "Error"]
              /\ ~isRunning[name]
         /\ tutorialStatus[name].state = "none"
              <=> (inFlight[name] = 0 /\ settled[name] = "none")

\* One run that threw and one that went through, both over.
C23_Witness ==
  /\ window_defined
  /\ \E a, b \in TutorialNames :
       /\ inFlight[a] = 0 /\ settled[a] = "rejected"
       /\ tutorialStatus[a].state = "failed" /\ ~isRunning[a]
       /\ inFlight[b] = 0 /\ settled[b] = "resolved"
       /\ tutorialStatus[b].state = "passed" /\ ~isRunning[b]
  /\ console.error = 1

\* C24 as stated: in the browser, while a call of a tutorial's action is
\* pending, its status is "running" and the flag of its button is set.
C24_RunningWhilePending ==
  window_defined =>
    \A name \in TutorialNames :
      inFlight[name] > 0 =>
        (tutorialStatus[name].state = "running" /\ isRunning[name])

Occurrences(seq, x) == Cardinality({ i \in DOMAIN seq : seq[i] = x })

\* C25: for a non-empty selection of web catalog names, the tests that the
\* pattern built from it selects are exactly the tests whose title is in
\* the selection; every name of the web catalog is the title of exactly one
\* test and matches the title of no other test.
C25_PatternSelectsTests ==
  /\ NumberOf("web") > 0 => tests_run = Range(web_names)
  /\ \A n \in Range(catalogs.WEB_EXAMPLES) : Occurrences(tutorials, n) = 1
  /\ \A n \in Range(catalogs.WEB_EXAMPLES) :
       grep_tests(<< n >>) = { n }

\* Three names were selected and the pattern ran their three tests only.
C25_Witness ==
  /\ NumberOf("web") = 1
  /\ Len(web_names) = 3
  /\ Len(web_pattern) = 5
  /\ Cardinality(tests_run) = 3
  /\ tests_run = Range(web_names)

\* C26: a class that runs has a selection with at least one name and no
\* empty name: a value that is empty or made of commas only gives no name and
\* the defaults are taken; the pattern given to playwright is never empty
\* and has no empty alternative, and the loop over the rust names runs at
\* least one tutorial.
C26_NonEmptySelection ==
  /\ WebResolved =>
       /\ web_names # << >>
       /\ \A i \in DOMAIN web_names : web_names[i] # ""
       /\ RequestedWeb = << >> => web_names = DefaultWebNames
  /\ RustResolved =>
       /\ rust_names # << >>
       /\ \A i \in DOMAIN rust_names : rust_names[i] # ""
       /\ RequestedRust = << >> => rust_names = DefaultRustNames
  /\ NumberOf("web") > 0 =>
       /\ web_pattern # << >>
       /\ web_pattern[1] # "|" /\ web_pattern[Len(web_pattern)] # "|"
       /\ \A i \in 1..(Len(web_pattern) - 1) :
            ~(web_pattern[i] = "|" /\ web_pattern[i + 1] = "|")
       /\ \A i \in DOMAIN web_pattern : web_pattern[i] # ""
       /\ tests_run # {}
  /\ (run_rust = 1 /\ pc \in { "summary", "done" }) => NumberOf("run") > 0

\* "--web=," and "--rust=": no name in either; the defaults ran.
C26_Witness ==
  /\ argv = << [flag |-> "--web=", val |-> << Comma >>],
               [flag |-> "--rust=", val |-> << >>] >>
  /\ pc = "summary"
  /\ web_names = DefaultWebNames /\ rust_names = DefaultRustNames
  /\ NumberOf("web") = 1 /\ NumberOf("run") >= 8

\* C27: whatever the retry budget (unset, negative, 0 or more) and whatever
\* the tutorials exit with, the script comes to its end: it exits or runs
\* past its last line; on the way the attempt number of an entry never goes
\* beyond the budget (beyond 1 for a budget below 1) and the loop never goes
\* beyond the last entry.
C27_Terminates ==
  /\ <>Terminated
  /\ [](pc \in { "for", "attempt" } =>
          /\ idx <= Len(rust_names)
          /\ attempt <= AtLeastOne(Configured)
          /\ \A i \in Entries : AttemptsOf(i) <= AtLeastOne(Configured))

\* With a budget of -1 the only entry failed once and the script was over.
C27_Witness ==
  /\ TUTORIAL_RETRIES = [set |-> TRUE, val |-> 0 - 1]
  /\ Terminated /\ err = "failures"
  /\ Len(rust_names) = 1
  /\ AttemptsOf(1) = 1 /\ Exhausted(1)

WebFailed == \E k \in EventsOf("web") : events[k].status # 0
RustTags == { j \in DOMAIN failures : failures[j][1] = "rust" }

\* C28: playwright comes before cargo clean, every tutorial and every sleep;
\* whatever playwright exits with, the script goes on to the rust block
\* without exiting; with both classes run and playwright failed, a script
\* that got to its summary has checked the rust names, run cargo clean once
\* and brought every entry of the rust selection to its end with at least
\* one attempt; the web tag is then first in the failures, before the rust
\* tags.
C28_WebThenRust ==
  /\ [][pc = "web_run" => pc' = "rust" /\ exit_code' = exit_code]_vars
  /\ [](\A i \in EventsOf("web") :
          \A j \in DOMAIN events : events[j].ev # "web" => i < j)
  /\ []((/\ WebFailed /\ run_rust = 1
         /\ pc \in { "summary", "done" } \/ (pc = "exit" /\ err = "failures"))
        => /\ RustValidated
           /\ NumberOf("clean") = 1
           /\ \A i \in Entries : Finished(i) /\ AttemptsOf(i) >= 1
           /\ failures[1] = << "web" >>
           /\ \A j \in RustTags : j > 1)

\* Playwright failed, the rust tutorials were run all the same and one of
\* them used up its budget: the script ended with both tags.
C28_Witness ==
  /\ pc = "exit" /\ err = "failures"
  /\ WebFailed
  /\ summary[1] = << "web" >>
  /\ RustTags # {}
  /\ NumberOf("clean") = 1 /\ NumberOf("run") >= Len(rust_names)

Imports == { k \in DOMAIN calls : calls[k].call = "importAccountById" }
\* The calls of the steps after the lookup block.
LaterCalls == { k \in DOMAIN calls : k > Len(calls) - step }
AfterLookup == pc = "later" \/ (pc = "returned" /\ window_defined)
NotFound == "Account not found after import"

\* C29: in incrementCounterContract and foreignProcedureInvocation the
\* counter contract is imported only after a first lookup that found nothing,
\* and never when that lookup found it; past the lookup block the variable
\* holds the account and the store has it; the function rejects with
\* 'Account not found after import' exactly when the lookup after the import
\* found nothing, and then no later step has run; every step after the
\* lookup block runs with the account in the variable and in the store.
C29_AccountPresent ==
  fn \in CounterFunctions =>
    /\ \A k \in Imports :
         /\ k = 2
         /\ calls[1].call = "getAccount" /\ ~calls[1].found
    /\ (calls # << >> /\ calls[1].found) => Imports = {}
    /\ AfterLookup => counterContractAccount = "account" /\ store
    /\ thrown = NotFound <=>
         /\ pc = "rejected"
         /\ Len(calls) = 4 /\ calls[4].call = "getAccount" /\ ~calls[4].found
    /\ thrown = NotFound => step = 0 /\ counterContractAccount = "undefined"
    /\ \A k \in LaterCalls : calls[k].account = "account" /\ calls[k].found

\* foreignProcedureInvocation found nothing at first, imported the account
\* and ran all its later steps.
C29_Witness ==
  /\ fn = "foreignProcedureInvocation"
  /\ pc = "returned" /\ window_defined
  /\ Imports = { 2 }
  /\ step = Len(later_steps(fn))
  /\ calls[Len(calls)].call = "getAccount"

\* C30: when unauthenticatedNoteTransfer has completed, Alice holds 9750 MID,
\* wallets 1 to 4 hold nothing and wallet 5 holds 50 MID; a sender whose
\* note creation has been executed holds at least 50 MID.
C30_FinalBalances ==
  fn = "unauthenticatedNoteTransfer" =>
    /\ pc = "completed" =>
         /\ balance[alice] = 9750
         /\ \A k \in 1..4 : balance[wallets[k]] = 0
         /\ balance[wallets[5]] = 50
    /\ (pc = "create" /\ tx # "execute") =>
         balance[sender(loop_i)] >= 50

====
